---- MODULE Spec2Model ----
(***************************************************************************)
(* A model of MetaFinder's metadata pipeline: the MIME classifier          *)
(* (utils/file_detection.py), the per-category extraction backends         *)
(* (extractors/*.py), the report renderer (utils/normalize.py), the        *)
(* report writer (utils/text_writer.py) and the window that runs them      *)
(* (main.py).                                                              *)
(*                                                                         *)
(* Python strings are TLA+ strings (TLC treats them as sequences of        *)
(* one-character strings); a Python dict is a sequence of <<key, value>>   *)
(* pairs with unique keys, in insertion order; None is the string-free     *)
(* record NoneV.                                                           *)
(***************************************************************************)
EXTENDS Integers, Sequences, FiniteSets, TLC

VARIABLES
    mime_type,      \* classifier: the argument of get_file_category
    category,       \* classifier: what the call returned ("idle" before the call)
    metadata_dict,  \* renderer: the map normalize_metadata is called with
    reports,        \* renderer: the calls made so far, [dict, now, text] each
    available,      \* backends: the *_AVAILABLE flags set when the modules load
    extraction,     \* backends: the last extract call and how it ended
    hashing,        \* backends: the calculate_hashes call under way
    utility,        \* utils: the last detect_type, save_metadata or
                    \* generate_output_filename call and what it returned
    app             \* main.py: the window's variables and the handlers under way

classifierVars == <<mime_type, category>>
rendererVars   == <<metadata_dict, reports>>
backendVars    == <<available, extraction, hashing>>
vars == <<mime_type, category, metadata_dict, reports, available, extraction, hashing,
          utility, app>>

-----------------------------------------------------------------------------
(* Python built-ins on strings *)

Min(a, b) == IF a <= b THEN a ELSE b

CharAt(s, i) == SubSeq(s, i, i)

\* str.startswith
StartsWith(s, p) == Len(p) <= Len(s) /\ SubSeq(s, 1, Len(p)) = p

\* the `in` operator on strings (sub is never empty here)
Contains(s, sub) ==
    \E i \in 1..(Len(s) - Len(sub) + 1) : SubSeq(s, i, i + Len(sub) - 1) = sub

UpperChars == "ABCDEFGHIJKLMNOPQRSTUVWXYZ"
LowerChars == "abcdefghijklmnopqrstuvwxyz"

\* position of the one-character string c in the string abc, 0 when absent
IndexIn(c, abc) ==
    IF \E i \in 1..Len(abc) : CharAt(abc, i) = c
    THEN CHOOSE i \in 1..Len(abc) : CharAt(abc, i) = c
    ELSE 0

LowerChar(c) ==
    IF IndexIn(c, UpperChars) > 0 THEN CharAt(LowerChars, IndexIn(c, UpperChars)) ELSE c

\* str.lower
RECURSIVE Lower(_)
Lower(s) == IF s = "" THEN "" ELSE LowerChar(Head(s)) \o Lower(Tail(s))

\* Python values are tagged: None, and str (more below)
NoneV == [t |-> "none"]
Str(s) == [t |-> "str", v |-> s]

-----------------------------------------------------------------------------
(* utils/file_detection.py: get_file_category *)

DocumentTokens == <<"pdf", "word", "document", "text", "officedocument">>
ArchiveTokens  == <<"zip", "rar", "7z", "tar", "gzip", "compress">>

\* any(x in mime_lower for x in tokens)
AnyIn(tokens, mime_lower) ==
    \E i \in 1..Len(tokens) : Contains(mime_lower, tokens[i])

\* (mutation: the archive test before the document test)
get_file_category_archive_first(mime) ==
    \* `not mime_type`: None or the empty string
    IF mime.t = "none" \/ mime.v = "" THEN "other"
    ELSE LET mime_lower == Lower(mime.v) IN
         IF StartsWith(mime_lower, "image/") THEN "image"
         ELSE IF StartsWith(mime_lower, "audio/") THEN "audio"
         ELSE IF StartsWith(mime_lower, "video/") THEN "video"
         ELSE IF AnyIn(ArchiveTokens, mime_lower) THEN "archive"
         ELSE IF AnyIn(DocumentTokens, mime_lower) THEN "document"
         ELSE "other"

get_file_category(mime) ==
    \* `not mime_type`: None or the empty string
    IF mime.t = "none" \/ mime.v = "" THEN "other"
    ELSE LET mime_lower == Lower(mime.v) IN
         IF StartsWith(mime_lower, "image/") THEN "image"
         ELSE IF StartsWith(mime_lower, "audio/") THEN "audio"
         ELSE IF StartsWith(mime_lower, "video/") THEN "video"
         ELSE IF AnyIn(DocumentTokens, mime_lower) THEN "document"
         ELSE IF AnyIn(ArchiveTokens, mime_lower) THEN "archive"
         ELSE "other"

\* The MIME strings the classifier is exercised on: up to MaxMimeParts
\* fragments concatenated, plus the empty string and None.
MaxMimeParts == 2

RECURSIVE MimeOfParts(_)
MimeOfParts(n) ==
    IF n = 0 THEN {""}
    ELSE LET shorter == MimeOfParts(n - 1)
             fragments ==
                 { "image/", "IMAGE/", "Audio/", "video/", "application/", "text/",
                   "pdf", "PDF", "x-tar", "zip", "Zip", "msword", "x-7z-compressed",
                   "octet-stream", "jpeg", "x", "vnd.rar", "gzip", "image", "/" }
         IN shorter \cup { m \o f : m \in shorter, f \in fragments }


\* main.py calls get_file_category once per extraction, on what detect_type returned
Categorize ==
    /\ category = "idle"
    /\ category' = get_file_category(mime_type)
    /\ UNCHANGED <<mime_type>>

-----------------------------------------------------------------------------
(* Python values and dicts *)

IntV(n)    == [t |-> "int", v |-> n]
\* bytes: a sequence of numbers 0..255
Bytes(b)  == [t |-> "bytes", v |-> b]
\* list or tuple: a sequence of values
List(xs)  == [t |-> "list", v |-> xs]
\* dict: a sequence of [k, v] items, unique keys, in insertion order
Dict(items) == [t |-> "dict", v |-> items]
Item(k, v) == [k |-> k, v |-> v]
EmptyDict == Dict(<<>>)
Bool(b)   == [t |-> "bool", v |-> b]
\* a float rounded to two decimals, kept as its hundredths
Float2(h) == [t |-> "float", v |-> h]

DictKeys(d) == { d.v[i].k : i \in 1..Len(d.v) }
DictHas(d, k) == \E i \in 1..Len(d.v) : d.v[i].k = k
DictGet(d, k) == d.v[CHOOSE i \in 1..Len(d.v) : d.v[i].k = k].v

\* d[k] = v: an existing key keeps its position
DictSet(d, k, v) ==
    IF DictHas(d, k)
    THEN Dict([i \in 1..Len(d.v) |-> IF d.v[i].k = k THEN Item(k, v) ELSE d.v[i]])
    ELSE Dict(Append(d.v, Item(k, v)))

\* d.update(e): a key of d keeps its position and takes e's value, the keys
\* new to d follow in e's order
DictUpdate(d, e) ==
    LET New(item) == ~DictHas(d, item.k)
    IN Dict([i \in 1..Len(d.v) |->
               IF DictHas(e, d.v[i].k) THEN Item(d.v[i].k, DictGet(e, d.v[i].k))
               ELSE d.v[i]]
            \o SelectSeq(e.v, New))

\* `not metadata_dict`: None or an empty dict
Falsy(d) == d.t = "none" \/ (d.t = "dict" /\ Len(d.v) = 0)

-----------------------------------------------------------------------------
(* str(): the default string form *)

\* f'{b:02x}'
Hex2(b) ==
    LET HexDigits == "0123456789abcdef"
    IN CharAt(HexDigits, (b \div 16) + 1) \o CharAt(HexDigits, (b % 16) + 1)

\* chr(48) .. chr(90) and chr(97) .. chr(122)

\* one byte inside Python's repr of a bytes object: a printable character
\* stands for itself, a control or high byte is \xNN (the bytes drawn are
\* control bytes, digits, letters and high bytes)
ByteRepr(b) ==
    IF b >= 48 /\ b <= 90
    THEN CharAt("0123456789:;<=>?@ABCDEFGHIJKLMNOPQRSTUVWXYZ", b - 47)
    ELSE IF b >= 97 /\ b <= 122 THEN CharAt(LowerChars, b - 96)
    ELSE "\\x" \o Hex2(b)

RECURSIVE BytesBody(_)
BytesBody(b) == IF Len(b) = 0 THEN "" ELSE ByteRepr(Head(b)) \o BytesBody(Tail(b))

\* str() of a float that round(x, 2) returned, kept as its hundredths h:
\* the shortest decimal, at least one digit after the point
FloatStr(h) ==
    LET abs == IF h < 0 THEN 0 - h ELSE h
    IN (IF h < 0 THEN "-" ELSE "")
       \o ToString(abs \div 100) \o "."
       \o (IF abs % 10 = 0 THEN ToString((abs % 100) \div 10)
           ELSE ToString((abs % 100) \div 10) \o ToString(abs % 10))

PyStr(value) ==
    CASE value.t = "str"   -> value.v
      [] value.t = "int"   -> ToString(value.v)
      [] value.t = "none"  -> "None"
      [] value.t = "bool"  -> IF value.v THEN "True" ELSE "False"
      [] value.t = "float" -> FloatStr(value.v)
      [] value.t = "bytes" -> "b'" \o BytesBody(value.v) \o "'"

\* sep.join(parts)
RECURSIVE Join(_, _)
Join(parts, sep) ==
    IF Len(parts) = 0 THEN ""
    ELSE IF Len(parts) = 1 THEN parts[1]
    ELSE parts[1] \o sep \o Join(Tail(parts), sep)

\* c * n
RECURSIVE Repeat(_, _)
Repeat(c, n) == IF n <= 0 THEN "" ELSE c \o Repeat(c, n - 1)

-----------------------------------------------------------------------------
(* utils/normalize.py *)

RuleWidth == 80

\* str.replace('_', ' ')
RECURSIVE ReplaceUnderscores(_)
ReplaceUnderscores(s) ==
    IF s = "" THEN ""
    ELSE (IF Head(s) = "_" THEN " " ELSE Head(s)) \o ReplaceUnderscores(Tail(s))


\* str.title(): a cased character is upper-cased after an uncased one (or at
\* the start) and lower-cased after a cased one
RECURSIVE TitleFrom(_, _)
TitleFrom(s, prevCased) ==
    IF s = "" THEN ""
    ELSE LET c == Head(s)
             upper == IF IndexIn(c, LowerChars) > 0
                      THEN CharAt(UpperChars, IndexIn(c, LowerChars)) ELSE c
         IN (IF prevCased THEN LowerChar(c) ELSE upper)
            \o TitleFrom(Tail(s), IndexIn(c, UpperChars \o LowerChars) > 0)
Title(s) == TitleFrom(s, FALSE)

\* code-point order of the characters that occur in keys
Ord(c) ==
    IndexIn(c, " -./0123456789:ABCDEFGHIJKLMNOPQRSTUVWXYZ_abcdefghijklmnopqrstuvwxyz")

\* a < b for Python strings: lexicographic by code point
RECURSIVE StrLess(_, _)
StrLess(a, b) ==
    IF b = "" THEN FALSE
    ELSE IF a = "" THEN TRUE
    ELSE IF Head(a) = Head(b) THEN StrLess(Tail(a), Tail(b))
    ELSE Ord(Head(a)) < Ord(Head(b))

\* sorted(keys): insertion sort of a sequence of strings
RECURSIVE InsertSorted(_, _)
InsertSorted(sorted, k) ==
    IF Len(sorted) = 0 THEN <<k>>
    ELSE IF StrLess(k, Head(sorted)) THEN <<k>> \o sorted
    ELSE <<Head(sorted)>> \o InsertSorted(Tail(sorted), k)

RECURSIVE SortedFrom(_, _, _)
SortedFrom(keys, i, acc) ==
    IF i > Len(keys) THEN acc ELSE SortedFrom(keys, i + 1, InsertSorted(acc, keys[i]))

\* list(d.keys()): the keys in insertion order
KeyList(d) == [i \in 1..Len(d.v) |-> d.v[i].k]

\* format_nested_dict(d, indent)
RECURSIVE format_nested_dict_from(_, _, _)
format_nested_dict_from(d, indent, i) ==
    IF i > Len(d.v) THEN ""
    ELSE LET key == d.v[i].k
             value == d.v[i].v
         IN (IF value.t = "dict"
             THEN "\n" \o Repeat(" ", indent) \o key \o ":"
                  \o format_nested_dict_from(value, indent + 2, 1)
             ELSE "\n" \o Repeat(" ", indent) \o key \o ": " \o PyStr(value))
            \o format_nested_dict_from(d, indent, i + 1)

\* the value formatting of normalize_metadata's loop body
FormatValue(value) ==
    IF value.t = "list"
    THEN Join([i \in 1..Len(value.v) |-> PyStr(value.v[i])], ", ")
    ELSE IF value.t = "dict" THEN format_nested_dict_from(value, 2, 1)
    ELSE IF value.t = "bytes"
    THEN "<binary data: " \o ToString(Len(value.v)) \o " bytes>"
    ELSE PyStr(value)

\* (mutation: the keys visited in insertion order)
VisitOrder_unsorted(d) == KeyList(d)

\* the keys normalize_metadata visits, in the order it visits them
VisitOrder(d) == SortedFrom(KeyList(d), 1, <<>>)

normalize_metadata(d, file_path, mime, now) ==
    LET rule == Repeat("=", RuleWidth)
        header == << rule, "METADATA EXTRACTION REPORT", rule,
                     "Generated: " \o now,
                     "File: " \o file_path,
                     "MIME Type: " \o mime,
                     rule, "" >>
        keys == VisitOrder(d)
        body == [i \in 1..Len(keys) |->
                   Title(ReplaceUnderscores(keys[i])) \o ": "
                   \o FormatValue(DictGet(d, keys[i]))]
        footer == << "", rule, "Total metadata fields: " \o ToString(Len(d.v)), rule >>
    IN IF Falsy(d)
       THEN Join(header \o <<"No metadata found or unable to extract metadata.">>, "\n")
       ELSE Join(header \o body \o footer, "\n")

\* The maps the renderer is exercised on: none, one or two of RenderKeys (the
\* pairs "aB", "a_b" and "file_name", "Zeta"; Reorder gives the other insertion
\* order), each with one of RenderValues.  "aB" sorts before "a_b" as a
\* raw key and after it once displayed ("Ab" against "A B").
RenderKeys == <<"file_name", "aB", "a_b", "Zeta">>

RenderValues ==
    << Str("hello"),
       IntV(11),
       Bytes(<<0, 255>>),
       List(<<Str("a"), IntV(1)>>),
       List(<<Bytes(<<65>>), Str("z")>>),
       Dict(<<Item("b", IntV(1)), Item("a", Str("x"))>>),
       Dict(<<Item("lat", Bytes(<<1>>))>>),
       Dict(<<Item("in", Dict(<<Item("y", Bytes(<<66, 67>>)), Item("x", IntV(3))>>)),
              Item("at", NoneV)>>) >>

RenderPath == "/tmp/a.bin"
RenderMime == "application/octet-stream"

\* how many normalize_metadata calls a behaviour makes
MaxRenders == 2

\* The same mapping with its keys inserted in another order: the top-level
\* items permuted by p, and, when rev, every nested dict's items reversed.
RECURSIVE ReverseNested(_)
ReverseNested(value) ==
    IF value.t = "dict"
    THEN Dict([i \in 1..Len(value.v) |->
                 Item(value.v[Len(value.v) + 1 - i].k,
                      ReverseNested(value.v[Len(value.v) + 1 - i].v))])
    ELSE value

\* the caller builds the same mapping again, inserting in another order
Reorder ==
    /\ metadata_dict.t = "dict"
    /\ Len(reports) < MaxRenders
    /\ LET d == metadata_dict
           n == Len(d.v)
           perms == { p \in [1..n -> 1..n] : \A i, j \in 1..n : i # j => p[i] # p[j] }
       IN \E p \in perms, rev \in BOOLEAN :
            metadata_dict' =
               Dict([i \in 1..n |->
                       Item(d.v[p[i]].k,
                            IF rev THEN ReverseNested(d.v[p[i]].v) ELSE d.v[p[i]].v)])
    /\ UNCHANGED <<reports>>

Normalize ==
    /\ Len(reports) < MaxRenders
    /\ \E now \in {"2024-01-01 10:00:00", "2024-01-01 10:00:01"} :
         reports' = Append(reports,
                           [dict |-> metadata_dict, now |-> now,
                            text |-> normalize_metadata(metadata_dict, RenderPath,
                                                        RenderMime, now)])
    /\ UNCHANGED <<metadata_dict>>

-----------------------------------------------------------------------------
(* os.path and os.stat *)

\* str.rfind(c) + 1: the last position of c in s, 0 when absent
RFind(s, c) ==
    IF \E i \in 1..Len(s) : CharAt(s, i) = c
    THEN CHOOSE i \in 1..Len(s) :
            CharAt(s, i) = c /\ \A j \in (i + 1)..Len(s) : CharAt(s, j) # c
    ELSE 0

\* os.path.basename
basename(path) == SubSeq(path, RFind(path, "/") + 1, Len(path))

\* os.path.splitext: the pair (root, ext), cut at the last dot when it lies
\* in the last component after a character that is not a dot
splitext(path) ==
    LET sep == RFind(path, "/")
        dot == RFind(path, ".")
        at == IF dot > sep /\ \E j \in (sep + 1)..(dot - 1) : CharAt(path, j) # "."
              THEN dot ELSE Len(path) + 1
    IN << SubSeq(path, 1, at - 1), SubSeq(path, at, Len(path)) >>

\* str.endswith
EndsWith(s, suffix) ==
    Len(suffix) <= Len(s) /\ SubSeq(s, Len(s) - Len(suffix) + 1, Len(s)) = suffix

\* the hundredths of round(num / den, 2), num >= 0, den > 0: round-half-even
Round2(num, den) ==
    LET abs == IF num < 0 THEN 0 - num ELSE num
        q == (abs \div den) * 100 + ((abs % den) * 100) \div den
        r == ((abs % den) * 100) % den
        rounded == IF 2 * r > den \/ (2 * r = den /\ q % 2 = 1) THEN q + 1 ELSE q
    IN IF num < 0 THEN 0 - rounded ELSE rounded


\* The files a backend is called on.  statable: os.stat succeeds (the path
\* exists and can be stat'ed); readable: open succeeds; size: st_size; head:
\* the first bytes of the content, sixteen at most.
Files ==
    << [path |-> "/d/gone.zip", statable |-> FALSE, readable |-> FALSE, size |-> 0,
        head |-> <<>>],
       [path |-> "/d/pic.jpg", statable |-> TRUE, readable |-> TRUE, size |-> 5,
        head |-> <<255, 216, 255, 224, 0>>],
       [path |-> "/d/pack.zip", statable |-> TRUE, readable |-> TRUE, size |-> 131072,
        head |-> <<80, 75, 3, 4, 20, 0, 0, 0, 8, 0, 65, 66, 67, 68, 69, 70>>],
       [path |-> "/d/pack.tar.gz", statable |-> TRUE, readable |-> TRUE, size |-> 20000,
        head |-> <<31, 139, 8, 0, 0, 0, 0, 0, 0, 3, 97, 98, 99, 100, 101, 102>>],
       [path |-> "/d/pack.7z", statable |-> TRUE, readable |-> TRUE, size |-> 7,
        head |-> <<55, 122, 188, 175, 39, 28, 0>>],
       [path |-> "/d/pack.tgz", statable |-> TRUE, readable |-> TRUE, size |-> 2048,
        head |-> <<31, 139, 8, 0, 0, 0, 0, 0, 0, 3, 97, 98, 99, 100, 101, 102>>],
       [path |-> "/d/notes.txt", statable |-> TRUE, readable |-> TRUE, size |-> 11,
        head |-> <<104, 101, 108, 108, 111, 10, 119, 111, 114, 108, 100>>],
       [path |-> "/d/Paper.PDF", statable |-> TRUE, readable |-> FALSE, size |-> 900000,
        head |-> <<37, 80, 68, 70, 45, 49, 46, 52, 10, 37, 226, 227, 207, 211, 10, 49>>],
       [path |-> "/d/.hidden", statable |-> TRUE, readable |-> TRUE, size |-> 0,
        head |-> <<>>],
       [path |-> "/d/big.iso", statable |-> TRUE, readable |-> TRUE,
        size |-> 100 * 1024 * 1024 + 1,
        head |-> <<0, 0, 0, 0, 0, 0, 0, 0, 0, 0, 0, 0, 0, 0, 0, 0>>],
       [path |-> "/d/plan.docx", statable |-> TRUE, readable |-> TRUE, size |-> 30000,
        head |-> <<80, 75, 3, 4, 20, 0, 6, 0, 8, 0, 0, 0, 33, 0, 1, 2, 3, 4>>] >>

\* get_basic_info of the image, audio, video, document and archive backends
\* (the same three keys in each), once os.stat has succeeded
get_basic_info(file) ==
    Dict(<< Item("file_name", Str(basename(file.path))),
            Item("file_size_bytes", IntV(file.size)),
            Item("file_size_mb", Float2(Round2(file.size, 1024 * 1024))) >>)

\* One `metadata.update(source(file_path))` of an extract call: the source,
\* whether its library or tool failed, and the map it returned.
Part(source, failed, d) == [source |-> source, failed |-> failed, dict |-> d]

\* (mutation: each source's map replaces the accumulated one)
MergeParts_replace(parts) ==
    IF Len(parts) = 0 THEN EmptyDict ELSE parts[Len(parts)].dict

\* metadata = {} followed by one metadata.update per part, in order
RECURSIVE MergeFrom(_, _, _)
MergeFrom(parts, i, acc) ==
    IF i > Len(parts) THEN acc
    ELSE MergeFrom(parts, i + 1, DictUpdate(acc, parts[i].dict))
MergeParts(parts) == MergeFrom(parts, 1, EmptyDict)

\* How an extract call ends: os.stat raising in get_basic_info is caught by
\* nothing in the backend and leaves it as an exception; otherwise the merged
\* map is returned.
Outcome(backend, file, basic, parts) ==
    IF ~file.statable
    THEN [backend |-> backend, file |-> file, status |-> "raised",
          metadata |-> NoneV, parts |-> <<>>]
    ELSE [backend |-> backend, file |-> file, status |-> "returned",
          metadata |-> MergeParts(<<Part("get_basic_info", FALSE, basic)>> \o parts),
          parts |-> <<Part("get_basic_info", FALSE, basic)>> \o parts]

\* the parts of the sources that are attempted: those whose flag is set
RECURSIVE Attempted(_, _)
Attempted(flags, parts) ==
    IF Len(parts) = 0 THEN <<>>
    ELSE (IF Head(flags) THEN <<Head(parts)>> ELSE <<>>)
         \o Attempted(Tail(flags), Tail(parts))

ErrorDict(key, message) == Dict(<<Item(key, Str(message))>>)

\* the cap on the members an archive backend lists (file_list[:50])
ListCap == 50

-----------------------------------------------------------------------------
(* extractors/image_extractor.py *)

\* bytes.decode('utf-8', errors='ignore') of letters, digits and lone high bytes
RECURSIVE DecodeIgnore(_)
DecodeIgnore(b) ==
    IF Len(b) = 0 THEN ""
    ELSE (IF Head(b) < 128 THEN ByteRepr(Head(b)) ELSE "") \o DecodeIgnore(Tail(b))

\* what PIL does with the file: Image.open raises, or the image opens and
\* _getexif raises (no such method on a PNG image), or EXIF and info are read
\* (the last image carries ListCap + 1 tags that TAGS has no name for)
PilScenarios ==
    << [raises |-> "open", message |-> "cannot identify image file"],
       [raises |-> "getexif", message |-> "_getexif",
        format |-> Str("PNG"), mode |-> "RGBA", width |-> 4, height |-> 3,
        exif |-> <<>>, info |-> <<>>],
       [raises |-> "no", message |-> "",
        format |-> Str("JPEG"), mode |-> "RGB", width |-> 640, height |-> 480,
        exif |-> << Item("Make", Str("Canon")),
                    Item("file_name", Bytes(<<65, 255, 66>>)),
                    Item("GPSInfo", Dict(<<Item("GPSLatitudeRef", Str("N")),
                                           Item("GPSAltitude", IntV(12))>>)) >>,
        info |-> << Item("dpi", Str("(72, 72)")), Item("exif", Bytes(<<1>>)),
                    Item("file_size_bytes", IntV(1)) >>],
       [raises |-> "no", message |-> "",
        format |-> NoneV, mode |-> "L", width |-> 1, height |-> 1,
        exif |-> <<>>, info |-> <<>>],
       [raises |-> "no", message |-> "",
        format |-> Str("TIFF"), mode |-> "RGB", width |-> 2, height |-> 2,
        exif |-> [i \in 1..(ListCap + 1) |-> Item(ToString(50000 + i), IntV(i))],
        info |-> <<>>] >>

\* the loop over exif_data.items()  (metadata is a dict at every turn; reading
\* its tag makes TLC build it turn by turn and not all at once at the end)
RECURSIVE pil_exif(_, _, _)
pil_exif(metadata, exif, i) ==
    IF i > Len(exif) \/ metadata.t # "dict" THEN metadata
    ELSE LET tag_name == exif[i].k
             value == exif[i].v
         IN IF tag_name = "GPSInfo"
            THEN pil_exif(DictSet(metadata, "gps_info",
                                  Dict([g \in 1..Len(value.v) |->
                                          Item(value.v[g].k, Str(PyStr(value.v[g].v)))])),
                          exif, i + 1)
            ELSE pil_exif(DictSet(metadata, "exif_" \o tag_name,
                                  Str(IF value.t = "bytes" THEN DecodeIgnore(value.v)
                                      ELSE PyStr(value))),
                          exif, i + 1)

\* the loop over img.info.items()
RECURSIVE pil_info(_, _, _)
pil_info(metadata, info, i) ==
    IF i > Len(info) THEN metadata
    ELSE IF info[i].k \in {"exif", "icc_profile"} THEN pil_info(metadata, info, i + 1)
    ELSE pil_info(DictSet(metadata, "info_" \o info[i].k, Str(PyStr(info[i].v))),
                  info, i + 1)

extract_with_pil(sc) ==
    IF sc.raises = "open" THEN ErrorDict("pil_error", sc.message)
    ELSE LET opened ==
                 Dict(<< Item("image_format", sc.format),
                         Item("image_mode", Str(sc.mode)),
                         Item("image_width", IntV(sc.width)),
                         Item("image_height", IntV(sc.height)),
                         Item("image_size",
                              Str(ToString(sc.width) \o "x" \o ToString(sc.height))) >>)
         IN IF sc.raises = "getexif"
            THEN DictSet(opened, "pil_error", Str(sc.message))
            ELSE pil_info(pil_exif(opened, sc.exif, 1), sc.info, 1)

\* what exifread does with the file: open or process_file raises, or tags
ExifreadScenarios ==
    << [raises |-> TRUE, message |-> "Permission denied", tags |-> <<>>],
       [raises |-> FALSE, message |-> "",
        tags |-> << Item("Image Make", Str("Canon")),
                    Item("JPEGThumbnail", Str("...")),
                    Item("file_name", Str("x")) >>],
       [raises |-> FALSE, message |-> "", tags |-> <<>>],
       [raises |-> FALSE, message |-> "",
        tags |-> [i \in 1..(ListCap + 1) |->
                    Item("EXIF Tag 0x" \o Hex2(i), Str(ToString(i)))]] >>

\* the loop over tags.items()
RECURSIVE exifread_tags(_, _, _)
exifread_tags(metadata, tags, i) ==
    IF i > Len(tags) \/ metadata.t # "dict" THEN metadata
    ELSE IF Contains(Lower(tags[i].k), "thumbnail")
    THEN exifread_tags(metadata, tags, i + 1)
    ELSE exifread_tags(DictSet(metadata, "exifread_" \o tags[i].k,
                               Str(PyStr(tags[i].v))), tags, i + 1)

extract_with_exifread(sc) ==
    IF sc.raises THEN ErrorDict("exifread_error", sc.message)
    ELSE exifread_tags(EmptyDict, sc.tags, 1)

\* One extract call is followed per behaviour: the backends keep no state
\* from one call to the next.
ImageExtract ==
    /\ extraction.status = "idle"
    /\ \E f \in 1..Len(Files), p \in 1..Len(PilScenarios), x \in 1..Len(ExifreadScenarios) :
         LET
             file == Files[f]
             pil == PilScenarios[p]
             exifread == ExifreadScenarios[x]
         IN extraction' =
         Outcome("image", file, get_basic_info(file),
                 Attempted(<<available.PIL, available.EXIFREAD>>,
                           << Part("pil", pil.raises # "no", extract_with_pil(pil)),
                              Part("exifread", exifread.raises,
                                   extract_with_exifread(exifread)) >>))

-----------------------------------------------------------------------------
(* extractors/audio_extractor.py *)

\* what mutagen does with the file: MutagenFile raises, returns None, or
\* returns an object with info attributes (in dir() order) and tags
MutagenScenarios ==
    \* an attribute of audio.info as dir() and getattr() show it
    LET Attr(name, kind, value) == [name |-> name, kind |-> kind, value |-> value] IN
    << [result |-> "raises", message |-> "can't sync to MPEG frame"],
       [result |-> "none", message |-> ""],
       [result |-> "ok", message |-> "", has_info |-> TRUE,
        attrs |-> << Attr("_private", "value", IntV(1)),
                     Attr("bitrate", "value", IntV(128000)),
                     Attr("channels", "value", IntV(2)),
                     Attr("file_name", "value", Str("shadow")),
                     Attr("length", "value", Float2(350)),
                     Attr("pprint", "callable", NoneV),
                     Attr("sketchy", "raises", NoneV),
                     Attr("track_gain", "value", NoneV) >>,
        tags |-> << Item("TIT2", List(<<Str("Song"), Str("Live")>>)),
                    Item("file_size_mb", Str("9")) >>],
       [result |-> "ok", message |-> "", has_info |-> FALSE,
        attrs |-> <<>>, tags |-> <<>>] >>

HasAttr(attrs, name) == \E i \in 1..Len(attrs) : attrs[i].name = name
GetAttr(attrs, name) ==
    attrs[CHOOSE i \in 1..Len(attrs) : attrs[i].name = name].value

\* the loop over dir(info)
RECURSIVE mutagen_attrs(_, _, _)
mutagen_attrs(metadata, attrs, i) ==
    IF i > Len(attrs) THEN metadata
    ELSE IF /\ ~StartsWith(attrs[i].name, "_")
            /\ attrs[i].kind = "value"
            /\ attrs[i].value.t # "none"
    THEN mutagen_attrs(DictSet(metadata, "audio_" \o attrs[i].name,
                               Str(PyStr(attrs[i].value))), attrs, i + 1)
    ELSE mutagen_attrs(metadata, attrs, i + 1)

\* the loop over audio.tags.items()
RECURSIVE mutagen_tags(_, _, _)
mutagen_tags(metadata, tags, i) ==
    IF i > Len(tags) THEN metadata
    ELSE mutagen_tags(
             DictSet(metadata, "tag_" \o tags[i].k,
                     Str(IF tags[i].v.t = "list"
                         THEN Join([j \in 1..Len(tags[i].v.v) |-> PyStr(tags[i].v.v[j])],
                                   ", ")
                         ELSE PyStr(tags[i].v))),
             tags, i + 1)

extract_with_mutagen(sc) ==
    IF sc.result = "raises" THEN ErrorDict("mutagen_error", sc.message)
    ELSE IF sc.result = "none" THEN ErrorDict("mutagen_error", "Unable to read file")
    ELSE LET prop(name) == IF HasAttr(sc.attrs, name) THEN GetAttr(sc.attrs, name)
                           ELSE NoneV
             props ==
                 IF sc.has_info
                 THEN mutagen_attrs(
                          Dict(<< Item("duration_seconds", prop("length")),
                                  Item("bitrate", prop("bitrate")),
                                  Item("sample_rate", prop("sample_rate")),
                                  Item("channels", prop("channels")) >>),
                          sc.attrs, 1)
                 ELSE EmptyDict
         IN mutagen_tags(props, sc.tags, 1)

\* what tinytag does with the file: TinyTag.get raises, or the fields of
\* the tag that the file has
TinytagScenarios ==
    << [raises |-> TRUE, message |-> "No tag reader found", known |-> <<>>],
       [raises |-> FALSE, message |-> "",
        known |-> << Item("artist", Str("Band")), Item("bitrate", IntV(128)),
                     Item("channels", IntV(2)) >>],
       [raises |-> FALSE, message |-> "", known |-> <<>>] >>

\* (mutation: the fields are stored under their bare names)
RECURSIVE tinytag_fields_unprefixed(_, _, _)
tinytag_fields_unprefixed(metadata, known, i) ==
    IF i > Len(known) THEN metadata
    ELSE tinytag_fields_unprefixed(DictSet(metadata, known[i].k, Str(PyStr(known[i].v))),
                                   known, i + 1)

\* the loop over fields.items(): a field the file lacks is None and is skipped
RECURSIVE tinytag_fields(_, _, _)
tinytag_fields(metadata, known, i) ==
    LET fields ==
            << "artist", "album", "title", "track", "year", "genre", "comment",
               "albumartist", "composer", "disc", "duration", "bitrate", "samplerate",
               "channels" >>
    IN IF i > Len(fields) THEN metadata
       ELSE IF DictHas(Dict(known), fields[i])
       THEN tinytag_fields(DictSet(metadata, "tinytag_" \o fields[i],
                                   Str(PyStr(DictGet(Dict(known), fields[i])))),
                           known, i + 1)
       ELSE tinytag_fields(metadata, known, i + 1)

extract_with_tinytag(sc) ==
    IF sc.raises THEN ErrorDict("tinytag_error", sc.message)
    ELSE tinytag_fields(EmptyDict, sc.known, 1)

AudioExtract ==
    /\ extraction.status = "idle"
    /\ \E f \in 1..Len(Files), m \in 1..Len(MutagenScenarios),
          t \in 1..Len(TinytagScenarios) :
         LET
             file == Files[f]
             mutagen == MutagenScenarios[m]
             tinytag == TinytagScenarios[t]
         IN extraction' =
         Outcome("audio", file, get_basic_info(file),
                 Attempted(<<available.MUTAGEN, available.TINYTAG>>,
                           << Part("mutagen", mutagen.result # "ok",
                                   extract_with_mutagen(mutagen)),
                              Part("tinytag", tinytag.raises,
                                   extract_with_tinytag(tinytag)) >>))

-----------------------------------------------------------------------------
(* hachoir, as the video and the generic backend use it *)

\* the characters str.strip() and str.split() take for whitespace
Whitespace == {" ", "\n", "\t", "\r"}

\* str.strip(): chars is the set of characters stripped
RECURSIVE LStrip(_, _)
LStrip(s, chars) == IF s # "" /\ Head(s) \in chars THEN LStrip(Tail(s), chars) ELSE s
RECURSIVE RStrip(_, _)
RStrip(s, chars) ==
    IF s # "" /\ CharAt(s, Len(s)) \in chars
    THEN RStrip(SubSeq(s, 1, Len(s) - 1), chars)
    ELSE s
Strip(s, chars) == LStrip(RStrip(s, chars), chars)

\* what hachoir does with the file: createParser raises, finds no parser,
\* extractMetadata finds nothing, or the plain-text lines are exported
\* (and closing the stream may raise after them)
HachoirScenarios ==
    << [result |-> "raises", message |-> "Unable to open file", lines |-> <<>>],
       [result |-> "no_parser", message |-> "", lines |-> <<>>],
       [result |-> "no_metadata", message |-> "", lines |-> <<>>],
       [result |-> "lines", message |-> "",
        lines |-> << "Metadata:", "- Duration: 3 sec", "file_name: x: y ",
                     "- MIME type: video/mp4" >>],
       [result |-> "close_raises", message |-> "'NoneType' object has no attribute 'close'",
        lines |-> << "- Duration: 3 sec" >>] >>

\* the loop over meta.exportPlaintext()
RECURSIVE hachoir_lines(_, _, _)
hachoir_lines(metadata, lines, i) ==
    IF i > Len(lines) THEN metadata
    ELSE IF Contains(lines[i], ": ")
    THEN LET \* str.find(': ') + 1: the first position of the separator
             at == CHOOSE k \in 1..(Len(lines[i]) - 1) :
                      /\ SubSeq(lines[i], k, k + 1) = ": "
                      /\ \A j \in 1..(k - 1) : SubSeq(lines[i], j, j + 1) # ": "
             key == SubSeq(lines[i], 1, at - 1)
             value == SubSeq(lines[i], at + 2, Len(lines[i]))
         IN hachoir_lines(DictSet(metadata, "hachoir_" \o Strip(key, Whitespace),
                                  Str(Strip(value, Whitespace))),
                          lines, i + 1)
    ELSE hachoir_lines(metadata, lines, i + 1)

extract_with_hachoir(sc) ==
    IF sc.result = "raises" THEN ErrorDict("hachoir_error", sc.message)
    ELSE IF sc.result \in {"no_parser", "no_metadata"} THEN EmptyDict
    ELSE IF sc.result = "close_raises"
    THEN DictSet(hachoir_lines(EmptyDict, sc.lines, 1), "hachoir_error", Str(sc.message))
    ELSE hachoir_lines(EmptyDict, sc.lines, 1)

HachoirFailed(sc) == sc.result \in {"raises", "close_raises"}

-----------------------------------------------------------------------------
(* extractors/video_extractor.py *)

\* dict.get(key, default) on a JSON object
GetOr(d, k, default) == IF DictHas(d, k) THEN DictGet(d, k) ELSE default

FfprobeTimeout == 30

\* What locating and running ffprobe does: no executable is found; the one
\* found cannot be started (FileNotFoundError); it runs past the timeout; it
\* exits with a status and an output (data: the parsed JSON, NoneV when the
\* output is no JSON; the last output lists ListCap + 1 streams).
FfprobeScenarios ==
    << [located |-> FALSE, run |-> "none", seconds |-> 0, returncode |-> 0,
        data |-> NoneV, message |-> ""],
       [located |-> TRUE, run |-> "not_found", seconds |-> 0, returncode |-> 0,
        data |-> NoneV, message |-> ""],
       [located |-> TRUE, run |-> "ran", seconds |-> 31, returncode |-> 0,
        data |-> NoneV, message |-> ""],
       [located |-> TRUE, run |-> "ran", seconds |-> 1, returncode |-> 1,
        data |-> NoneV, message |-> ""],
       [located |-> TRUE, run |-> "ran", seconds |-> 2, returncode |-> 0,
        data |-> NoneV, message |-> "Expecting value: line 1 column 1 (char 0)"],
       [located |-> TRUE, run |-> "ran", seconds |-> 30, returncode |-> 0,
        data |-> Dict(<<
           Item("format", Dict(<<
               Item("format_name", Str("mov,mp4")),
               Item("duration", Str("3.2")),
               Item("size", Str("5")),
               Item("tags", Dict(<<Item("title", Str("Clip")),
                                   Item("file_name", Str("shadow"))>>)) >>)),
           Item("streams", List(<<
               Dict(<<Item("codec_type", Str("video")), Item("codec_name", Str("h264")),
                      Item("width", IntV(640)), Item("height", IntV(480))>>),
               Dict(<<Item("codec_type", Str("audio")), Item("codec_name", Str("aac")),
                      Item("channels", IntV(2))>>),
               Dict(<<Item("codec_name", Str("bin_data"))>>) >>)) >>),
        message |-> ""],
       [located |-> TRUE, run |-> "ran", seconds |-> 1, returncode |-> 0,
        data |-> EmptyDict, message |-> ""],
       [located |-> TRUE, run |-> "ran", seconds |-> 4, returncode |-> 0,
        data |-> Dict(<<
           Item("streams",
                List([i \in 1..(ListCap + 1) |->
                        Dict(<<Item("codec_type", Str("audio")),
                               Item("codec_name", Str("aac"))>>)])) >>),
        message |-> ""] >>

\* the loop over fmt['tags'].items()
RECURSIVE ffprobe_tags(_, _, _)
ffprobe_tags(metadata, tags, i) ==
    IF i > Len(tags.v) THEN metadata
    ELSE ffprobe_tags(DictSet(metadata, "tag_" \o tags.v[i].k, tags.v[i].v), tags, i + 1)

ffprobe_format(metadata, data) ==
    IF ~DictHas(data, "format") THEN metadata
    ELSE LET fmt == DictGet(data, "format")
             named ==
                 DictUpdate(metadata,
                     Dict(<< Item("format_name", GetOr(fmt, "format_name", Str(""))),
                             Item("format_long_name", GetOr(fmt, "format_long_name", Str(""))),
                             Item("duration", GetOr(fmt, "duration", Str(""))),
                             Item("size", GetOr(fmt, "size", Str(""))),
                             Item("bit_rate", GetOr(fmt, "bit_rate", Str(""))) >>))
         IN IF DictHas(fmt, "tags") THEN ffprobe_tags(named, DictGet(fmt, "tags"), 1)
            ELSE named

\* the loop over enumerate(data['streams'])
RECURSIVE ffprobe_streams(_, _, _)
ffprobe_streams(metadata, streams, i) ==
    IF i > Len(streams) \/ metadata.t # "dict" THEN metadata
    ELSE LET stream == streams[i]
             codec_type == GetOr(stream, "codec_type", NoneV)
             prefix == "stream_" \o ToString(i - 1) \o "_"
                           \o PyStr(GetOr(stream, "codec_type", Str("unknown")))
             codec ==
                 Dict(<< Item(prefix \o "_codec", GetOr(stream, "codec_name", Str(""))),
                         Item(prefix \o "_codec_long",
                              GetOr(stream, "codec_long_name", Str(""))) >>)
             detail ==
                 IF codec_type = Str("video")
                 THEN Dict(<< Item(prefix \o "_width", GetOr(stream, "width", Str(""))),
                              Item(prefix \o "_height", GetOr(stream, "height", Str(""))),
                              Item(prefix \o "_fps", GetOr(stream, "r_frame_rate", Str(""))),
                              Item(prefix \o "_aspect_ratio",
                                   GetOr(stream, "display_aspect_ratio", Str(""))) >>)
                 ELSE IF codec_type = Str("audio")
                 THEN Dict(<< Item(prefix \o "_sample_rate",
                                   GetOr(stream, "sample_rate", Str(""))),
                              Item(prefix \o "_channels",
                                   GetOr(stream, "channels", Str(""))) >>)
                 ELSE EmptyDict
         IN ffprobe_streams(DictUpdate(DictUpdate(metadata, codec), detail),
                            streams, i + 1)

\* (mutation: a FileNotFoundError at launch is handled by the last except)
extract_with_ffprobe_launch_as_error(sc) ==
    IF ~sc.located
    THEN ErrorDict("ffprobe_note",
                   "ffprobe not found (install FFmpeg for detailed video metadata)")
    ELSE IF sc.run = "not_found"
    THEN ErrorDict("ffprobe_error", "[Errno 2] No such file or directory: 'ffprobe'")
    ELSE IF sc.seconds > FfprobeTimeout
    THEN ErrorDict("ffprobe_error", "Timeout while processing video")
    ELSE IF sc.returncode # 0 THEN EmptyDict
    ELSE IF sc.data.t = "none" THEN ErrorDict("ffprobe_error", sc.message)
    ELSE LET formatted == ffprobe_format(EmptyDict, sc.data)
         IN IF DictHas(sc.data, "streams")
            THEN ffprobe_streams(formatted, DictGet(sc.data, "streams").v, 1)
            ELSE formatted

extract_with_ffprobe(sc) ==
    IF ~sc.located \/ sc.run = "not_found"
    THEN ErrorDict("ffprobe_note",
                   "ffprobe not found (install FFmpeg for detailed video metadata)")
    ELSE IF sc.seconds > FfprobeTimeout
    THEN ErrorDict("ffprobe_error", "Timeout while processing video")
    ELSE IF sc.returncode # 0 THEN EmptyDict
    ELSE IF sc.data.t = "none" THEN ErrorDict("ffprobe_error", sc.message)
    ELSE LET formatted == ffprobe_format(EmptyDict, sc.data)
         IN IF DictHas(sc.data, "streams")
            THEN ffprobe_streams(formatted, DictGet(sc.data, "streams").v, 1)
            ELSE formatted

\* ffprobe was found and started, and did not deliver: it timed out, exited
\* with a non-zero status, or printed no JSON
FfprobeFailed(sc) ==
    /\ sc.located
    /\ sc.run = "ran"
    /\ (sc.seconds > FfprobeTimeout \/ sc.returncode # 0 \/ sc.data.t = "none")

VideoExtract ==
    /\ extraction.status = "idle"
    /\ \E f \in 1..Len(Files), p \in 1..Len(FfprobeScenarios),
          h \in 1..Len(HachoirScenarios) :
         LET
             file == Files[f]
             ffprobe == FfprobeScenarios[p]
             hachoir == HachoirScenarios[h]
         IN extraction' =
         Outcome("video", file, get_basic_info(file),
                 Attempted(<<TRUE, available.HACHOIR>>,
                           << Part("ffprobe", FfprobeFailed(ffprobe),
                                   extract_with_ffprobe(ffprobe)),
                              Part("hachoir", HachoirFailed(hachoir),
                                   extract_with_hachoir(hachoir)) >>))
         @@ [ffprobe |-> ffprobe]

-----------------------------------------------------------------------------
(* extractors/document_extractor.py *)

PreviewLimit == 200

\* s[:n]
Take(s, n) == SubSeq(s, 1, Min(n, Len(s)))

\* str.replace(a, b) for one-character a, half by half
RECURSIVE ReplaceChar(_, _, _)
ReplaceChar(s, a, b) ==
    IF Len(s) = 0 THEN ""
    ELSE IF Len(s) = 1 THEN (IF s = a THEN b ELSE s)
    ELSE ReplaceChar(SubSeq(s, 1, Len(s) \div 2), a, b)
         \o ReplaceChar(SubSeq(s, Len(s) \div 2 + 1, Len(s)), a, b)

\* str.count(c)
CountChar(s, c) == Cardinality({ i \in 1..Len(s) : CharAt(s, i) = c })

\* len(s.split()): the number of maximal runs of non-whitespace, counted by
\* the positions where a run starts
WordCount(s) ==
    Cardinality({ i \in 1..Len(s) :
                    /\ CharAt(s, i) \notin Whitespace
                    /\ (i = 1 \/ CharAt(s, i - 1) \in Whitespace) })

\* what PyPDF2 does with the file: PdfReader raises, a page's extract_text
\* raises, or the pages, the document information and the first page's text
PdfScenarios ==
    << [raises |-> "reader", message |-> "EOF marker not found"],
       [raises |-> "extract_text", message |-> "cannot decode page",
        num_pages |-> 2, meta |-> NoneV, encrypted |-> FALSE, text |-> NoneV],
       [raises |-> "no", message |-> "", num_pages |-> 1,
        meta |-> Dict(<< Item("/Title", Str("Report")), Item("/Author", Str("A. B.")),
                         Item("/Keywords", Str("k1, k2")),
                         Item("/file_name/", Str("shadow")) >>),
        encrypted |-> FALSE, text |-> Str("First line\nsecond line")],
       [raises |-> "no", message |-> "", num_pages |-> 0, meta |-> EmptyDict,
        encrypted |-> TRUE, text |-> NoneV],
       [raises |-> "no", message |-> "", num_pages |-> 3, meta |-> NoneV,
        encrypted |-> FALSE, text |-> Str("")],
       [raises |-> "no", message |-> "", num_pages |-> 1, meta |-> NoneV,
        encrypted |-> FALSE, text |-> Str(Repeat("word\n", 50))] >>

\* the /Keys read by name and the fields they are stored under
PdfNamed ==
    << <<"/Title", "pdf_title">>, <<"/Author", "pdf_author">>,
       <<"/Subject", "pdf_subject">>, <<"/Creator", "pdf_creator">>,
       <<"/Producer", "pdf_producer">>, <<"/CreationDate", "pdf_creation_date">>,
       <<"/ModDate", "pdf_modification_date">> >>

\* the loop over meta.items() for the keys not named above
RECURSIVE pdf_other(_, _, _)
pdf_other(metadata, meta, i) ==
    IF i > Len(meta.v) THEN metadata
    ELSE IF \E n \in 1..Len(PdfNamed) : PdfNamed[n][1] = meta.v[i].k
    THEN pdf_other(metadata, meta, i + 1)
    ELSE pdf_other(DictSet(metadata,
                           "pdf_" \o ReplaceChar(Strip(meta.v[i].k, {"/"}), "/", "_"),
                           Str(PyStr(meta.v[i].v))),
                   meta, i + 1)

\* a preview: the first PreviewLimit characters, newlines turned into spaces
Preview(text) ==
    ReplaceChar(IF text.t = "none" \/ text.v = "" THEN "" ELSE Take(text.v, PreviewLimit),
                "\n", " ")

extract_pdf(sc) ==
    IF sc.raises = "reader" THEN ErrorDict("pdf_error", sc.message)
    ELSE LET counted == Dict(<<Item("num_pages", IntV(sc.num_pages))>>)
             described ==
                 IF Falsy(sc.meta) THEN counted
                 ELSE pdf_other(
                          DictUpdate(counted,
                              Dict([n \in 1..Len(PdfNamed) |->
                                      Item(PdfNamed[n][2],
                                           GetOr(sc.meta, PdfNamed[n][1], Str("")))])),
                          sc.meta, 1)
             flagged == DictSet(described, "is_encrypted", Bool(sc.encrypted))
         IN IF sc.num_pages > 0
            THEN IF sc.raises = "extract_text"
                 THEN DictSet(flagged, "pdf_error", Str(sc.message))
                 ELSE DictSet(flagged, "first_page_preview", Str(Preview(sc.text)))
            ELSE flagged

\* what python-docx does with the file: Document raises, or the core
\* properties, the paragraphs' texts (a line break inside a paragraph reads
\* as a newline) and the table and section counts
DocxScenarios ==
    << [raises |-> TRUE, message |-> "Package not found"],
       [raises |-> FALSE, message |-> "",
        title |-> Str("Plan"), author |-> NoneV, subject |-> Str(""),
        keywords |-> NoneV, comments |-> NoneV, doc_category |-> NoneV,
        created |-> Str("2024-01-01 10:00:00"), modified |-> NoneV,
        last_modified_by |-> Str("me"), revision |-> IntV(3),
        paragraphs |-> <<"Intro", "Body">>, tables |-> 1, sections |-> 1],
       [raises |-> FALSE, message |-> "",
        title |-> NoneV, author |-> NoneV, subject |-> NoneV,
        keywords |-> NoneV, comments |-> NoneV, doc_category |-> NoneV,
        created |-> NoneV, modified |-> NoneV,
        last_modified_by |-> NoneV, revision |-> IntV(1),
        paragraphs |-> <<>>, tables |-> 0, sections |-> 1],
       [raises |-> FALSE, message |-> "",
        title |-> NoneV, author |-> NoneV, subject |-> NoneV,
        keywords |-> NoneV, comments |-> NoneV, doc_category |-> NoneV,
        created |-> NoneV, modified |-> NoneV,
        last_modified_by |-> NoneV, revision |-> IntV(2),
        paragraphs |-> << Repeat("soft\nbreak ", 20), "Body" >>,
        tables |-> 0, sections |-> 1] >>

extract_docx(sc) ==
    IF sc.raises THEN ErrorDict("docx_error", sc.message)
    ELSE LET \* x or ''
             OrEmpty(value) == IF value.t = "none" \/ value.v = "" THEN Str("") ELSE value
             described ==
                 Dict(<< Item("docx_title", OrEmpty(sc.title)),
                         Item("docx_author", OrEmpty(sc.author)),
                         Item("docx_subject", OrEmpty(sc.subject)),
                         Item("docx_keywords", OrEmpty(sc.keywords)),
                         Item("docx_comments", OrEmpty(sc.comments)),
                         Item("docx_category", OrEmpty(sc.doc_category)),
                         Item("docx_created", OrEmpty(sc.created)),
                         Item("docx_modified", OrEmpty(sc.modified)),
                         Item("docx_last_modified_by", OrEmpty(sc.last_modified_by)),
                         Item("docx_revision", sc.revision),
                         Item("num_paragraphs", IntV(Len(sc.paragraphs))),
                         Item("num_tables", IntV(sc.tables)),
                         Item("num_sections", IntV(sc.sections)) >>)
         IN IF Len(sc.paragraphs) > 0
            THEN DictSet(described, "first_paragraph_preview",
                         Str(Take(sc.paragraphs[1], PreviewLimit)))
            ELSE described

\* the text a .txt file decodes to
TxtContents == << "hello\nworld", "", "one  two\tthree\n", Repeat("ab\n", 70) >>

extract_txt(file, content) ==
    IF ~file.readable THEN ErrorDict("txt_error", "Permission denied")
    ELSE Dict(<< Item("num_characters", IntV(Len(content))),
                 Item("num_lines", IntV(CountChar(content, "\n") + 1)),
                 Item("num_words", IntV(WordCount(content))),
                 Item("preview", Str(Preview(Str(content)))) >>)

NoExtractorNote(ext, what) ==
    Dict(<<Item("note", Str("No specific extractor for " \o ext \o " " \o what))>>)

DocumentExtract ==
    /\ extraction.status = "idle"
    /\ \E f \in 1..Len(Files), p \in 1..Len(PdfScenarios), d \in 1..Len(DocxScenarios),
          c \in 1..Len(TxtContents) :
         LET
             file == Files[f]
             pdf == PdfScenarios[p]
             docx == DocxScenarios[d]
             content == TxtContents[c]
         IN extraction' =
         LET ext == Lower(splitext(file.path)[2])
         IN Outcome("document", file, get_basic_info(file),
                IF ext = ".pdf" /\ available.PYPDF2
                THEN <<Part("pdf", pdf.raises # "no", extract_pdf(pdf))>>
                ELSE IF ext \in {".docx", ".doc"} /\ available.DOCX
                THEN <<Part("docx", docx.raises, extract_docx(docx))>>
                ELSE IF ext = ".txt"
                THEN <<Part("txt", ~file.readable, extract_txt(file, content))>>
                ELSE <<Part("note", FALSE, NoExtractorNote(ext, "files"))>>)

-----------------------------------------------------------------------------
(* extractors/archive_extractor.py *)

\* the largest archive followed
MaxMembers == 52

\* What the archive library does with the file: it raises (not an archive of
\* that kind), or lists n members "m1", "m2", ... of member_size bytes each.
\* compression: how a tar file is really compressed.  The member counts: none,
\* one, around the cap, the largest.
ArchiveScenarios ==
    { [raises |-> TRUE, message |-> "File is not an archive", n |-> 0,
       member_size |-> 0, compression |-> "none"] }
    \cup { [raises |-> FALSE, message |-> "", n |-> n, member_size |-> z,
            compression |-> c] :
             n \in {0, 1, ListCap - 1, ListCap, ListCap + 1, MaxMembers},
             z \in {0, 4096}, c \in {"none", "gz"} }

\* the members' names in archive order
MemberNames(n) == [i \in 1..n |-> "m" \o ToString(i)]

\* (mutation: the note counts all the members)
FileListEntries_note_counts_all(names) ==
    IF Len(names) > ListCap
    THEN Dict(<< Item("file_list", Str(Join(SubSeq(names, 1, Min(ListCap, Len(names))), ", "))),
                 Item("file_list_note",
                      Str("... and " \o ToString(Len(names)) \o " more files")) >>)
    ELSE Dict(<< Item("file_list", Str(Join(SubSeq(names, 1, Min(ListCap, Len(names))), ", "))) >>)

\* file_list and file_list_note, as each of the three functions writes them
FileListEntries(names) ==
    IF Len(names) > ListCap
    THEN Dict(<< Item("file_list", Str(Join(SubSeq(names, 1, Min(ListCap, Len(names))), ", "))),
                 Item("file_list_note",
                      Str("... and " \o ToString(Len(names) - ListCap) \o " more files")) >>)
    ELSE Dict(<< Item("file_list", Str(Join(SubSeq(names, 1, Min(ListCap, Len(names))), ", "))) >>)

extract_zip(file, sc) ==
    IF sc.raises THEN ErrorDict("zip_error", sc.message)
    ELSE LET total_uncompressed == sc.n * sc.member_size
             sized ==
                 Dict(<< Item("num_files", IntV(sc.n)),
                         Item("compression_type", Str("ZIP")),
                         Item("total_uncompressed_size_mb",
                              Float2(Round2(total_uncompressed, 1024 * 1024))) >>)
             rated ==
                 IF total_uncompressed > 0
                 THEN DictSet(sized, "compression_ratio_percent",
                              Float2(Round2((total_uncompressed - file.size) * 100,
                                            total_uncompressed)))
                 ELSE sized
         IN DictUpdate(rated, FileListEntries(MemberNames(sc.n)))

\* the mode extract_tar opens the file with
tar_mode(path) ==
    IF EndsWith(path, ".tar.gz") \/ EndsWith(path, ".tgz") THEN "r:gz"
    ELSE IF EndsWith(path, ".tar.bz2") THEN "r:bz2"
    ELSE IF EndsWith(path, ".tar.xz") THEN "r:xz"
    ELSE "r"

\* tarfile.open succeeds in mode 'r' whatever the compression, and in mode
\* 'r:<c>' on a file compressed with <c>
TarOpens(mode, sc) == ~sc.raises /\ (mode = "r" \/ mode = "r:" \o sc.compression)

extract_tar(file, sc) ==
    IF ~TarOpens(tar_mode(file.path), sc)
    THEN ErrorDict("tar_error", IF sc.raises THEN sc.message ELSE "not a gzip file")
    ELSE DictUpdate(
             Dict(<< Item("num_files", IntV(sc.n)),
                     Item("compression_type", Str("TAR")),
                     Item("total_uncompressed_size_mb",
                          Float2(Round2(sc.n * sc.member_size, 1024 * 1024))) >>),
             FileListEntries(MemberNames(sc.n)))

extract_7z(sc) ==
    IF sc.raises THEN ErrorDict("7z_error", sc.message)
    ELSE DictUpdate(
             Dict(<< Item("num_files", IntV(sc.n)),
                     Item("compression_type", Str("7Z")) >>),
             FileListEntries(MemberNames(sc.n)))

\* the call's outcome together with what the archive held
ArchiveExtract ==
    /\ extraction.status = "idle"
    /\ \E f \in 1..Len(Files), sc \in ArchiveScenarios :
         LET file == Files[f]
             ext == Lower(splitext(file.path)[2])
         IN extraction' =
                  Outcome("archive", file, get_basic_info(file),
                      IF ext = ".zip"
                      THEN <<Part("zip", sc.raises, extract_zip(file, sc))>>
                      ELSE IF ext \in {".tar", ".gz", ".bz2", ".xz"}
                      THEN <<Part("tar", ~TarOpens(tar_mode(file.path), sc),
                                  extract_tar(file, sc))>>
                      ELSE IF ext = ".7z" /\ available.PY7ZR
                      THEN <<Part("7z", sc.raises, extract_7z(sc))>>
                      ELSE <<Part("note", FALSE, NoExtractorNote(ext, "archives"))>>)
                  @@ [archive |-> sc]

-----------------------------------------------------------------------------
(* extractors/generic_extractor.py *)

\* the three stat times are the same for every file
generic_get_basic_info(file) ==
    Dict(<< Item("file_name", Str(basename(file.path))),
            Item("file_extension", Str(splitext(file.path)[2])),
            Item("file_size_bytes", IntV(file.size)),
            Item("file_size_kb", Float2(Round2(file.size, 1024))),
            Item("file_size_mb", Float2(Round2(file.size, 1024 * 1024))),
            Item("creation_time", Str("1700000000.0")),
            Item("modification_time", Str("1700000100.25")),
            Item("access_time", Str("1700000200.5")) >>)

\* max_size
MaxHashSize == 100 * 1024 * 1024

\* the argument of f.read
ChunkSize == 4096

\* (mutation: a file of exactly max_size bytes is skipped too)
TooLarge_at_ceiling(file_size) == file_size >= MaxHashSize

\* file_size > max_size
TooLarge(file_size) == file_size > MaxHashSize

\* f.read(4096) at an offset: the bytes [from, to) of the file, empty at its end
ReadChunk(file, offset) ==
    [from |-> offset, to |-> Min(offset + ChunkSize, file.size)]

\* the read at this offset raises (a file on a failing device)
ReadFails(file, offset) ==
    "read_fails_at" \in DOMAIN file /\ file.read_fails_at = offset

\* hash.update(chunk).  What a hash object has been fed is kept as the list
\* of the file's byte ranges in feeding order; feeding the range that follows
\* the last one is feeding their concatenation.
Feed(fed, chunk) ==
    IF Len(fed) > 0 /\ fed[Len(fed)].to = chunk.from
    THEN [fed EXCEPT ![Len(fed)].to = chunk.to]
    ELSE Append(fed, chunk)

\* hash.hexdigest(): a string that names the algorithm and the bytes fed
hexdigest(algorithm, fed) ==
    Str(algorithm \o "("
        \o Join([i \in 1..Len(fed) |->
                   ToString(fed[i].from) \o ":" \o ToString(fed[i].to)], ",")
        \o ")")

HashNote(file_size) ==
    Dict(<<Item("hash_note",
                Str("File too large (" \o ToString(file_size)
                    \o " bytes), skipping hash calculation"))>>)

HashDigests(fed) ==
    Dict(<< Item("md5_hash", hexdigest("md5", fed)),
            Item("sha256_hash", hexdigest("sha256", fed)) >>)

\* the loop `for chunk in iter(lambda: f.read(4096), b"")` from an offset on
RECURSIVE HashLoop(_, _, _)
HashLoop(file, offset, fed) ==
    IF ReadFails(file, offset) THEN ErrorDict("hash_error", "Input/output error")
    ELSE LET chunk == ReadChunk(file, offset)
         IN IF chunk.to = chunk.from THEN HashDigests(fed)
            ELSE HashLoop(file, chunk.to, Feed(fed, chunk))

\* calculate_hashes as one call
calculate_hashes(file) ==
    IF ~file.statable THEN ErrorDict("hash_error", "No such file or directory")
    ELSE IF TooLarge(file.size) THEN HashNote(file.size)
    ELSE IF ~file.readable THEN ErrorDict("hash_error", "Permission denied")
    ELSE HashLoop(file, 0, <<>>)

\* calculate_hashes one read at a time, for the files whose loop is long

\* The files hashed one read at a time: missing, unreadable, failing in the
\* middle, empty, around one chunk, around the ceiling
HashFiles ==
    << [path |-> "/h/gone", statable |-> FALSE, readable |-> FALSE, size |-> 0],
       [path |-> "/h/locked", statable |-> TRUE, readable |-> FALSE, size |-> 5000],
       [path |-> "/h/failing", statable |-> TRUE, readable |-> TRUE, size |-> 20000,
        read_fails_at |-> 8192],
       [path |-> "/h/empty", statable |-> TRUE, readable |-> TRUE, size |-> 0],
       [path |-> "/h/one", statable |-> TRUE, readable |-> TRUE, size |-> 1],
       [path |-> "/h/short", statable |-> TRUE, readable |-> TRUE, size |-> ChunkSize - 1],
       [path |-> "/h/chunk", statable |-> TRUE, readable |-> TRUE, size |-> ChunkSize],
       [path |-> "/h/long", statable |-> TRUE, readable |-> TRUE, size |-> ChunkSize + 1],
       [path |-> "/h/under", statable |-> TRUE, readable |-> TRUE,
        size |-> MaxHashSize - 1],
       [path |-> "/h/ceiling", statable |-> TRUE, readable |-> TRUE,
        size |-> MaxHashSize],
       [path |-> "/h/over", statable |-> TRUE, readable |-> TRUE,
        size |-> MaxHashSize + 1],
       [path |-> "/h/locked_over", statable |-> TRUE, readable |-> FALSE,
        size |-> MaxHashSize + 4096] >>

HashDone(file, metadata) == [pc |-> "done", file |-> file, metadata |-> metadata]

\* from the call to the open: getsize, the size test, the two hash objects
HashOpen ==
    /\ hashing.pc = "idle"
    /\ \E f \in 1..Len(HashFiles) :
         LET file == HashFiles[f]
         IN hashing' =
              IF ~file.statable
              THEN HashDone(file, ErrorDict("hash_error", "No such file or directory"))
              ELSE IF TooLarge(file.size) THEN HashDone(file, HashNote(file.size))
              ELSE IF ~file.readable
              THEN HashDone(file, ErrorDict("hash_error", "Permission denied"))
              ELSE [pc |-> "loop", file |-> file, offset |-> 0, fed |-> <<>>]

\* one turn of the loop: the read raises (the except clause), is empty (the
\* loop ends and the two hexdigest calls follow), or gives a chunk that both
\* hash objects are updated with
HashRead ==
    /\ hashing.pc = "loop"
    /\ LET chunk == ReadChunk(hashing.file, hashing.offset)
       IN hashing' =
            IF ReadFails(hashing.file, hashing.offset)
            THEN HashDone(hashing.file, ErrorDict("hash_error", "Input/output error"))
            ELSE IF chunk.to = chunk.from
            THEN HashDone(hashing.file, HashDigests(hashing.fed))
            ELSE [hashing EXCEPT !.offset = chunk.to, !.fed = Feed(hashing.fed, chunk)]

\* header_size
HeaderSize == 16

RECURSIVE AsciiHeader(_)
AsciiHeader(header) ==
    \* chr(b) if 32 <= b < 127 else '.'  (no header drawn holds the byte 96)
    LET SpaceToUnderscore ==
            " !\"#$%&'()*+,-./0123456789:;<=>?@ABCDEFGHIJKLMNOPQRSTUVWXYZ[\\]^_"
        LowerToTilde == "abcdefghijklmnopqrstuvwxyz{|}~"
        b == Head(header)
        char == IF b >= 32 /\ b < 96 THEN CharAt(SpaceToUnderscore, b - 31)
                ELSE IF b > 96 /\ b < 127 THEN CharAt(LowerToTilde, b - 96)
                ELSE "."
    IN IF Len(header) = 0 THEN "" ELSE char \o AsciiHeader(Tail(header))

\* magic_signatures, in the order the dict literal lists them
magic_signatures ==
    << [signature |-> <<255, 216, 255>>, description |-> "JPEG image"],
       [signature |-> <<137, 80, 78, 71>>, description |-> "PNG image"],
       [signature |-> <<71, 73, 70, 56>>, description |-> "GIF image"],
       [signature |-> <<37, 80, 68, 70>>, description |-> "PDF document"],
       [signature |-> <<80, 75, 3, 4>>, description |-> "ZIP archive"],
       [signature |-> <<31, 139>>, description |-> "GZIP compressed"],
       [signature |-> <<82, 97, 114, 33>>, description |-> "RAR archive"],
       [signature |-> <<55, 122, 188, 175>>, description |-> "7-Zip archive"],
       [signature |-> <<73, 68, 51>>, description |-> "MP3 audio"],
       [signature |-> <<0, 0, 0, 24, 102, 116, 121, 112, 109, 112, 52, 50>>,
        description |-> "MP4 video"] >>

\* (mutation: the header is the whole of what the file starts with)
inspect_header_unbounded_read(file) ==
    IF ~file.readable THEN ErrorDict("header_error", "Permission denied")
    ELSE LET header == file.head
             startswith(prefix) ==
                 Len(prefix) <= Len(header) /\ SubSeq(header, 1, Len(prefix)) = prefix
             matching == SelectSeq(magic_signatures, LAMBDA m : startswith(m.signature))
             shown ==
                 Dict(<< Item("file_header_hex",
                              Str(Join([i \in 1..Len(header) |-> Hex2(header[i])], " "))),
                         Item("file_header_ascii", Str(AsciiHeader(header))) >>)
         IN IF Len(matching) > 0
            THEN DictSet(shown, "identified_format", Str(matching[1].description))
            ELSE shown

inspect_header(file) ==
    IF ~file.readable THEN ErrorDict("header_error", "Permission denied")
    ELSE LET header == SubSeq(file.head, 1, Min(HeaderSize, Len(file.head)))
             startswith(prefix) ==
                 Len(prefix) <= Len(header) /\ SubSeq(header, 1, Len(prefix)) = prefix
             matching == SelectSeq(magic_signatures, LAMBDA m : startswith(m.signature))
             shown ==
                 Dict(<< Item("file_header_hex",
                              Str(Join([i \in 1..Len(header) |-> Hex2(header[i])], " "))),
                         Item("file_header_ascii", Str(AsciiHeader(header))) >>)
         IN IF Len(matching) > 0
            THEN DictSet(shown, "identified_format", Str(matching[1].description))
            ELSE shown

GenericExtract ==
    /\ extraction.status = "idle"
    /\ \E f \in 1..Len(Files), h \in 1..Len(HachoirScenarios) :
         LET
             file == Files[f]
             hachoir == HachoirScenarios[h]
         IN extraction' =
         Outcome("generic", file, generic_get_basic_info(file),
                     Attempted(<<TRUE, available.HACHOIR, TRUE>>,
                               << Part("hash", DictHas(calculate_hashes(file), "hash_error"),
                                       calculate_hashes(file)),
                                  Part("hachoir", HachoirFailed(hachoir),
                                       extract_with_hachoir(hachoir)),
                                  Part("header", ~file.readable, inspect_header(file)) >>))

-----------------------------------------------------------------------------
(* utils/file_detection.py: detect_type *)

\* what python-magic does with the file: Magic() or from_file raises, or the
\* MIME type sniffed from the content
MagicScenarios ==
    << [raises |-> TRUE, message |-> "failed to find libmagic"],
       [raises |-> FALSE, mime |-> "image/jpeg"],
       [raises |-> FALSE, mime |-> "application/zip"],
       [raises |-> FALSE, mime |-> "inode/x-empty"] >>

\* mimetypes.guess_type(path)[0] with the standard tables: a suffix alias is
\* expanded, a compression suffix is set aside, and the extension is looked
\* up as written and then in lower case; None for an extension not listed
guess_type(path) ==
    LET suffix_map == << <<".tgz", ".tar.gz">>, <<".tbz2", ".tar.bz2">>,
                         <<".txz", ".tar.xz">> >>
        encodings_map == {".gz", ".Z", ".bz2", ".xz"}
        types_map == << <<".jpg", "image/jpeg">>, <<".txt", "text/plain">>,
                        <<".pdf", "application/pdf">>, <<".zip", "application/zip">>,
                        <<".tar", "application/x-tar">>,
                        <<".iso", "application/x-iso9660-image">> >>
        Aliased(ext) == \E a \in 1..Len(suffix_map) : suffix_map[a][1] = ext
        Alias(ext) == suffix_map[CHOOSE a \in 1..Len(suffix_map) : suffix_map[a][1] = ext][2]
        first == splitext(path)
        expanded == IF Aliased(first[2]) THEN splitext(first[1] \o Alias(first[2]))
                    ELSE first
        bare == IF expanded[2] \in encodings_map THEN splitext(expanded[1]) ELSE expanded
        Listed(ext) == \E t \in 1..Len(types_map) : types_map[t][1] = ext
        Type(ext) == types_map[CHOOSE t \in 1..Len(types_map) : types_map[t][1] = ext][2]
    IN IF Listed(bare[2]) THEN Str(Type(bare[2]))
       ELSE IF Listed(Lower(bare[2])) THEN Str(Type(Lower(bare[2])))
       ELSE NoneV

\* (mutation: the extension is consulted before the content)
detect_type_extension_first(file, magic_available, magic) ==
    IF ~file.statable THEN Str("unknown/unknown")
    ELSE IF guess_type(file.path).t # "none" THEN guess_type(file.path)
    ELSE IF magic_available /\ ~magic.raises THEN Str(magic.mime)
    ELSE Str("application/octet-stream")

detect_type(file, magic_available, magic) ==
    IF ~file.statable THEN Str("unknown/unknown")
    ELSE IF magic_available /\ ~magic.raises THEN Str(magic.mime)
    ELSE IF ~Falsy(guess_type(file.path)) /\ guess_type(file.path).v # ""
    THEN guess_type(file.path)
    ELSE Str("application/octet-stream")

\* One call of a utility is followed per behaviour.
DetectType ==
    /\ utility.pc = "idle"
    /\ \E f \in 1..Len(Files), magic_available \in BOOLEAN, m \in 1..Len(MagicScenarios) :
         utility' = [pc |-> "returned", call |-> "detect_type", file |-> Files[f],
                     MAGIC_AVAILABLE |-> magic_available, magic |-> MagicScenarios[m],
                     result |-> detect_type(Files[f], magic_available, MagicScenarios[m])]

-----------------------------------------------------------------------------
(* utils/text_writer.py *)

\* os.path.dirname
dirname(path) ==
    LET head == SubSeq(path, 1, RFind(path, "/"))
    IN IF Strip(head, {"/"}) = "" THEN head ELSE RStrip(head, {"/"})

\* What the file system does with one save: whether the output directory is
\* there, whether makedirs, open and the write (or the flush on close) raise,
\* how many characters reached the file when the write raised, and what the
\* file held before (None: no such file).  A directory that is missing holds
\* no file.
WriteScenarios ==
    { io \in [dir_exists : BOOLEAN, makedirs_raises : BOOLEAN, open_raises : BOOLEAN,
              write_raises : BOOLEAN, flushed : {0, 4},
              earlier : {NoneV, Str("old report, longer than the new one")}] :
        /\ ~io.dir_exists => io.earlier = NoneV
        /\ io.dir_exists => ~io.makedirs_raises
        /\ ~io.write_raises => io.flushed = 0 }

\* The text as the file gives it back: str.encode('utf-8', errors='replace')
\* writes '?' for a character UTF-8 cannot encode.  "^" stands here for such
\* a character (a lone surrogate, as in a file name that is not valid UTF-8).
encode_replace(text) == ReplaceChar(text, "^", "?")

\* (mutation: an error of the write is swallowed)
save_metadata_write_unchecked(text_content, output_path, io) ==
    IF dirname(output_path) # "" /\ ~io.dir_exists /\ io.makedirs_raises
    THEN [returned |-> FALSE, content |-> io.earlier,
          printed |-> "Error writing file: [Errno 13] Permission denied"]
    ELSE IF io.open_raises
    THEN [returned |-> FALSE, content |-> io.earlier,
          printed |-> "Error writing file: [Errno 13] Permission denied"]
    ELSE IF io.write_raises
    THEN [returned |-> TRUE,
          content |-> Str(Take(encode_replace(text_content), io.flushed)),
          printed |-> ""]
    ELSE [returned |-> TRUE, content |-> Str(encode_replace(text_content)),
          printed |-> ""]

\* save_metadata: what it returns, what the output file holds afterwards and
\* what the except branch printed (without the symbol the message starts
\* with).  open(..., 'w') empties the file before anything is written to it.
save_metadata(text_content, output_path, io) ==
    IF dirname(output_path) # "" /\ ~io.dir_exists /\ io.makedirs_raises
    THEN [returned |-> FALSE, content |-> io.earlier,
          printed |-> "Error writing file: [Errno 13] Permission denied"]
    ELSE IF io.open_raises
    THEN [returned |-> FALSE, content |-> io.earlier,
          printed |-> "Error writing file: [Errno 13] Permission denied"]
    ELSE IF io.write_raises
    THEN [returned |-> FALSE,
          content |-> Str(Take(encode_replace(text_content), io.flushed)),
          printed |-> "Error writing file: [Errno 28] No space left on device"]
    ELSE [returned |-> TRUE, content |-> Str(encode_replace(text_content)),
          printed |-> ""]

SaveMetadata ==
    /\ utility.pc = "idle"
    /\ \E text_content \in {"", "REPORT\nFile: /d/pic.jpg", "File: /d/na^me.txt"},
          output_path \in {"out.txt", "/d/pic_metadata.txt", "/d/new/out.txt", "/out.txt"},
          io \in WriteScenarios :
         /\ dirname(output_path) = "" => io.dir_exists
         /\ utility' = [pc |-> "returned", call |-> "save_metadata",
                        text_content |-> text_content, output_path |-> output_path,
                        io |-> io,
                        result |-> save_metadata(text_content, output_path, io)]

\* (mutation: the name is cut at the first dot of the path)
generate_output_filename_first_dot(input_path) ==
    LET dot == CHOOSE i \in 1..(Len(input_path) + 1) :
                  /\ i <= Len(input_path) => CharAt(input_path, i) = "."
                  /\ \A j \in 1..(i - 1) : CharAt(input_path, j) # "."
    IN SubSeq(input_path, 1, dot - 1) \o "_metadata.txt"

generate_output_filename(input_path) == splitext(input_path)[1] \o "_metadata.txt"

\* the input paths a default output name is made for
InputPaths ==
    { Files[f].path : f \in 1..Len(Files) }
        \cup { "report", "/d.x/readme", "/d.x/a.b.c", "/d/_metadata.txt",
               "/d/x_metadata.txt", ".bashrc", "/d/a.", "/pic.jpg", "x.txt" }

GenerateOutputFilename ==
    /\ utility.pc = "idle"
    /\ \E input_path \in InputPaths :
         utility' = [pc |-> "returned", call |-> "generate_output_filename",
                     input_path |-> input_path,
                     result |-> generate_output_filename(input_path)]

-----------------------------------------------------------------------------
(* main.py: MetaFinderApp *)

\* how many times the Extract button's command runs in a behaviour
MaxRuns == 2

\* The window as __init__ leaves it, and no utility call made.  stack holds
\* the extract_metadata calls under way, the innermost last, each inside the
\* root.update() named by its pc; requests, stages and outcomes record, by
\* number of the call, what each call was given, the pipeline functions it
\* invoked and the message boxes it showed; preview is the call whose report
\* the preview pane shows (0: none).
IdleProgram ==
    /\ utility = [pc |-> "idle"]
    /\ app = [selected_file |-> "", output_file |-> "", extract_btn |-> "disabled",
              preview |-> 0, stack |-> <<>>, requests |-> <<>>, stages |-> <<>>,
              outcomes |-> <<>>]

\* browse_file: the dialog is cancelled or returns a file
BrowseFile ==
    \E file_path \in {"", "/d/pic.jpg"} :
        app' = IF file_path = "" THEN app
               ELSE [app EXCEPT !.selected_file = file_path,
                                !.output_file = generate_output_filename(file_path),
                                !.extract_btn = "normal"]

\* browse_output: the dialog is cancelled or returns a path
BrowseOutput ==
    \E file_path \in {"", "/d/out.txt"} :
        app' = IF file_path = "" THEN app ELSE [app EXCEPT !.output_file = file_path]

\* the output entry is an editable field bound to output_file: the user
\* empties it
TypeOutput == app' = [app EXCEPT !.output_file = ""]

\* clear_all
ClearAll ==
    app' = [app EXCEPT !.selected_file = "", !.output_file = "", !.preview = 0,
                       !.extract_btn = "disabled"]

\* (mutation: the output path is not looked at)
validation_output_unchecked(input_path, output_path, exists) ==
    IF input_path = "" THEN "Please select an input file"
    ELSE IF ~exists THEN "Input file does not exist"
    ELSE ""

\* the three checks extract_metadata starts with: the error shown, "" when
\* the request passes
validation(input_path, output_path, exists) ==
    IF input_path = "" THEN "Please select an input file"
    ELSE IF output_path = "" THEN "Please specify an output location"
    ELSE IF ~exists THEN "Input file does not exist"
    ELSE ""

\* what extract_metadata does with save_metadata's return value: the preview
\* and the Success box, or the exception that the except branch reports
after_save_unchecked(success) == "success"

after_save(success) == IF success THEN "success" ELSE "error"

\* The Extract button is pressed while it is enabled: extract_metadata reads
\* the two paths and validates them; a request that passes goes on to
\* show_progress, whose root.update() serves the events that are waiting
\* before the button is disabled.  The command of a disabled button does not
\* run.
ExtractMetadata ==
    /\ app.extract_btn = "normal"
    /\ Len(app.requests) < MaxRuns
    /\ \E exists \in BOOLEAN :
         LET run == Len(app.requests) + 1
             input_path == app.selected_file
             output_path == app.output_file
             error == validation(input_path, output_path, exists)
             asked == Append(app.requests,
                             [input_path |-> input_path, output_path |-> output_path,
                              exists |-> exists])
         IN /\ input_path = "" => ~exists
            /\ app' = IF error # ""
                      THEN [app EXCEPT !.requests = asked,
                                       !.outcomes = Append(@, [run |-> run, box |-> "error",
                                                               message |-> error])]
                      ELSE [app EXCEPT !.requests = asked,
                                       !.stack = Append(@, [run |-> run,
                                                            pc |-> "show_progress"])]

\* The innermost extract_metadata call leaves the root.update() it is in and
\* runs to the next one, or to its end: from show_progress it disables the
\* button; between the update_progress calls it invokes detect_type and
\* get_file_category, get_metadata (which may raise), normalize_metadata and
\* save_metadata (which may return False); the finally clause enables the
\* button.
Proceed ==
    /\ Len(app.stack) > 0
    /\ \E fails \in BOOLEAN :
         LET top == app.stack[Len(app.stack)]
             At(pc) == [app.stack EXCEPT ![Len(app.stack)].pc = pc]
             popped == SubSeq(app.stack, 1, Len(app.stack) - 1)
             \* ok: the function returned, and save_metadata returned True
             Invoked(stage) ==
                 Append(app.stages, [run |-> top.run, stage |-> stage, ok |-> ~fails])
             Shown(box, message) ==
                 Append(app.outcomes, [run |-> top.run, box |-> box, message |-> message])
         IN /\ top.pc \notin {"extracting", "saving"} => ~fails
            /\ app' =
                 IF top.pc = "show_progress"
                 THEN [app EXCEPT !.extract_btn = "disabled", !.stack = At("detecting")]
                 ELSE IF top.pc = "detecting"
                 THEN [app EXCEPT !.stages = Invoked("classify"),
                                  !.stack = At("extracting")]
                 ELSE IF top.pc = "extracting"
                 THEN IF fails
                      THEN [app EXCEPT !.stages = Invoked("extract"),
                                       !.outcomes = Shown("error", "An error occurred:\n\n"
                                                                     \o "[Errno 5] Input/output error"),
                                       !.extract_btn = "normal", !.stack = popped]
                      ELSE [app EXCEPT !.stages = Invoked("extract"),
                                       !.stack = At("formatting")]
                 ELSE IF top.pc = "formatting"
                 THEN [app EXCEPT !.stages = Invoked("render"), !.stack = At("saving")]
                 ELSE IF after_save(~fails) = "error"
                 THEN [app EXCEPT !.stages = Invoked("write"),
                                  !.outcomes = Shown("error", "An error occurred:\n\n"
                                                              \o "Failed to write output file"),
                                  !.extract_btn = "normal", !.stack = popped]
                 ELSE [app EXCEPT !.stages = Invoked("write"), !.preview = top.run,
                                  !.outcomes = Shown("success",
                                                     "Metadata extracted successfully!"),
                                  !.extract_btn = "normal", !.stack = popped]

-----------------------------------------------------------------------------
(* Specifications: each draws the inputs of one component in its initial
   state and leaves the other components idle. *)

IdleClassifier == mime_type = NoneV /\ category = "idle"
IdleRenderer   == metadata_dict = NoneV /\ reports = <<>>
AllAvailable   == [PIL |-> TRUE, EXIFREAD |-> TRUE, MUTAGEN |-> TRUE, TINYTAG |-> TRUE,
                   HACHOIR |-> TRUE, PYPDF2 |-> TRUE, DOCX |-> TRUE, PY7ZR |-> TRUE]
IdleBackends   ==
    /\ available = AllAvailable
    /\ extraction = [backend |-> "none", status |-> "idle"]
    /\ hashing = [pc |-> "idle"]

InitClassify ==
    /\ \/ mime_type = NoneV
       \/ \E m \in MimeOfParts(MaxMimeParts) : mime_type = Str(m)
    /\ category = "idle"
    /\ IdleRenderer
    /\ IdleBackends
    /\ IdleProgram

NextClassify == Categorize /\ UNCHANGED <<rendererVars, backendVars, utility, app>>

SpecClassify == InitClassify /\ [][NextClassify]_vars

InitRender ==
    /\ IdleClassifier
    /\ IdleBackends
    /\ IdleProgram
    /\ \/ metadata_dict = NoneV
       \/ LET shapes == {<<>>} \cup { <<a>> : a \in 1..Len(RenderKeys) }
                                \cup { <<2, 3>>, <<1, 4>> }
          IN \E ks \in shapes :
               \E vs \in [1..Len(ks) -> 1..Len(RenderValues)] :
                  metadata_dict =
                     Dict([i \in 1..Len(ks) |->
                             Item(RenderKeys[ks[i]], RenderValues[vs[i]])])
    /\ reports = <<>>

NextRender ==
    \/ Normalize /\ UNCHANGED <<classifierVars, backendVars, utility, app>>
    \/ Reorder /\ UNCHANGED <<classifierVars, backendVars, utility, app>>

SpecRender == InitRender /\ [][NextRender]_vars

\* The flags are set once, when the extractor modules are imported.  A
\* backend reads at most two of them, so every combination a backend can see
\* is among: all libraries installed, exactly one missing, none installed.
InitExtract ==
    /\ IdleClassifier
    /\ IdleRenderer
    /\ IdleProgram
    /\ \E missing \in {{}, DOMAIN AllAvailable} \cup { {flag} : flag \in DOMAIN AllAvailable } :
          available = [flag \in DOMAIN AllAvailable |-> flag \notin missing]
    /\ extraction = [backend |-> "none", status |-> "idle"]
    /\ hashing = [pc |-> "idle"]

NextExtract ==
    \/ ImageExtract /\ UNCHANGED <<classifierVars, rendererVars, available, hashing, utility, app>>
    \/ AudioExtract /\ UNCHANGED <<classifierVars, rendererVars, available, hashing, utility, app>>
    \/ VideoExtract /\ UNCHANGED <<classifierVars, rendererVars, available, hashing, utility, app>>
    \/ DocumentExtract /\ UNCHANGED <<classifierVars, rendererVars, available, hashing, utility, app>>
    \/ ArchiveExtract /\ UNCHANGED <<classifierVars, rendererVars, available, hashing, utility, app>>
    \/ GenericExtract /\ UNCHANGED <<classifierVars, rendererVars, available, hashing, utility, app>>

SpecExtract == InitExtract /\ [][NextExtract]_vars

\* one calculate_hashes call, read by read
InitHash ==
    /\ IdleClassifier
    /\ IdleRenderer
    /\ IdleBackends
    /\ IdleProgram

NextHash ==
    \/ HashOpen /\ UNCHANGED <<classifierVars, rendererVars, available, extraction, utility, app>>
    \/ HashRead /\ UNCHANGED <<classifierVars, rendererVars, available, extraction, utility, app>>

SpecHash == InitHash /\ [][NextHash]_vars

\* one call of detect_type, save_metadata or generate_output_filename
NextUtil ==
    \/ DetectType /\ UNCHANGED <<classifierVars, rendererVars, backendVars, app>>
    \/ SaveMetadata /\ UNCHANGED <<classifierVars, rendererVars, backendVars, app>>
    \/ GenerateOutputFilename /\ UNCHANGED <<classifierVars, rendererVars, backendVars, app>>

\* before any call or click: nothing classified, rendered or extracted, and
\* the window as __init__ leaves it
InitProgram ==
    /\ IdleClassifier
    /\ IdleRenderer
    /\ IdleBackends
    /\ IdleProgram

SpecUtil == InitProgram /\ [][NextUtil]_vars

\* the window: the user's actions in any order, also while extract_metadata
\* is inside a root.update()
NextApp ==
    \/ BrowseFile /\ UNCHANGED <<classifierVars, rendererVars, backendVars, utility>>
    \/ BrowseOutput /\ UNCHANGED <<classifierVars, rendererVars, backendVars, utility>>
    \/ TypeOutput /\ UNCHANGED <<classifierVars, rendererVars, backendVars, utility>>
    \/ ClearAll /\ UNCHANGED <<classifierVars, rendererVars, backendVars, utility>>
    \/ ExtractMetadata /\ UNCHANGED <<classifierVars, rendererVars, backendVars, utility>>
    \/ Proceed /\ UNCHANGED <<classifierVars, rendererVars, backendVars, utility>>

SpecApp == InitProgram /\ [][NextApp]_vars

\* the same, with every root.update() returning once the waiting events are
\* served and every message box dismissed: a call under way goes on
SpecAppFair ==
    SpecApp /\ WF_vars(Proceed /\ UNCHANGED <<classifierVars, rendererVars, backendVars, utility>>)

-----------------------------------------------------------------------------
(* Reading a report back: its lines, and the values of a map *)

HasNewline(s) == \E i \in 1..Len(s) : CharAt(s, i) = "\n"

FirstNewline(s) ==
    CHOOSE i \in 1..Len(s) :
        CharAt(s, i) = "\n" /\ \A j \in 1..(i - 1) : CharAt(s, j) # "\n"

\* text.split("\n")
RECURSIVE SplitLines(_)
SplitLines(s) ==
    IF HasNewline(s)
    THEN <<SubSeq(s, 1, FirstNewline(s) - 1)>>
         \o SplitLines(SubSeq(s, FirstNewline(s) + 1, Len(s)))
    ELSE <<s>>

IsRule(line) == Len(line) = 80 /\ \A i \in 1..Len(line) : CharAt(line, i) = "="

IsTimestampLine(line) == StartsWith(line, "Generated: ")

\* the report without its 'Generated:' line
RECURSIVE DropTimestamp(_)
DropTimestamp(lines) ==
    IF Len(lines) = 0 THEN <<>>
    ELSE IF IsTimestampLine(Head(lines)) THEN DropTimestamp(Tail(lines))
    ELSE <<Head(lines)>> \o DropTimestamp(Tail(lines))

\* equality as mappings: the same keys with the same values at every level,
\* whatever the insertion order
RECURSIVE SameMapping(_, _)
SameMapping(a, b) ==
    IF a.t # b.t THEN FALSE
    ELSE IF a.t = "dict"
    THEN /\ DictKeys(a) = DictKeys(b)
         /\ \A k \in DictKeys(a) : SameMapping(DictGet(a, k), DictGet(b, k))
    ELSE a = b

\* every bytes value in a value: itself, in a list, in a nested map
RECURSIVE BytesIn(_)
RECURSIVE BytesInAll(_, _)
BytesIn(value) ==
    IF value.t = "bytes" THEN <<value>>
    ELSE IF value.t = "list"
    THEN BytesInAll(value.v, 1)
    ELSE IF value.t = "dict"
    THEN BytesInAll([i \in 1..Len(value.v) |-> value.v[i].v], 1)
    ELSE <<>>
BytesInAll(values, i) ==
    IF i > Len(values) THEN <<>> ELSE BytesIn(values[i]) \o BytesInAll(values, i + 1)

\* the number of top-level keys of a map (0 for an absent one)
TopLevelCount(d) == IF d.t = "dict" THEN Cardinality(DictKeys(d)) ELSE 0

\* the raw keys of a map in ascending order
Ascending(d) ==
    CHOOSE ks \in [1..Cardinality(DictKeys(d)) -> DictKeys(d)] :
        \A i, j \in DOMAIN ks : i < j => StrLess(ks[i], ks[j])

-----------------------------------------------------------------------------
(* Claims *)

Categories == {"image", "audio", "video", "document", "archive", "other"}

ClaimedDocumentTokens == {"pdf", "word", "document", "text", "officedocument"}
ClaimedArchiveTokens  == {"zip", "rar", "7z", "tar", "gzip", "compress"}

\* the MIME string as the classifier compares it: lower-cased, None as empty
ComparedMime == IF mime_type.t = "str" THEN Lower(mime_type.v) ELSE ""

\* C2: get_file_category returns exactly one of the six categories, the one
\* of the first matching rule in the order image/ prefix, audio/ prefix,
\* video/ prefix, document token, archive token, other, in any letter case
\* and for the empty or absent MIME string.
C2_FirstMatchingRule ==
    category # "idle" =>
        LET m == ComparedMime
            isImage == StartsWith(m, "image/")
            isAudio == StartsWith(m, "audio/")
            isVideo == StartsWith(m, "video/")
            isDoc   == \E x \in ClaimedDocumentTokens : Contains(m, x)
            isArch  == \E x \in ClaimedArchiveTokens : Contains(m, x)
        IN /\ category \in Categories
           /\ (category = "image") = isImage
           /\ (category = "audio") = (~isImage /\ isAudio)
           /\ (category = "video") = (~isImage /\ ~isAudio /\ isVideo)
           /\ (category = "document") = (~isImage /\ ~isAudio /\ ~isVideo /\ isDoc)
           /\ (category = "archive") =
                  (~isImage /\ ~isAudio /\ ~isVideo /\ ~isDoc /\ isArch)

\* a MIME string holding both a document and an archive token was classified
C2_Witness ==
    /\ category = "document"
    /\ Contains(ComparedMime, "pdf")
    /\ Contains(ComparedMime, "zip")

\* C5: two reports of maps that are equal as mappings, rendered with the same
\* path and MIME type, are identical apart from the timestamp line, whatever
\* the insertion order of the keys, nested maps included.
C5_OrderIndependent ==
    \A i, j \in 1..Len(reports) :
        SameMapping(reports[i].dict, reports[j].dict) =>
            DropTimestamp(SplitLines(reports[i].text))
                = DropTimestamp(SplitLines(reports[j].text))

\* C6: every report ends with the footer, whose count line states the number
\* of top-level keys of the map (0 for the empty or absent map).
C6_FooterAlways ==
    \A i \in 1..Len(reports) :
        LET lines == SplitLines(reports[i].text)
            n == Len(lines)
        IN /\ n >= 3
           /\ IsRule(lines[n - 2])
           /\ lines[n - 1] = "Total metadata fields: "
                                 \o ToString(TopLevelCount(reports[i].dict))
           /\ IsRule(lines[n])

\* the lines of the report of a non-empty map d after its header: the
\* 'Key: Value' entries in ascending order of raw key, then the footer
EntriesAndFooter(d) ==
    LET ks == Ascending(d)
    IN [i \in 1..Len(ks) |->
          Title(ReplaceUnderscores(ks[i])) \o ": " \o FormatValue(DictGet(d, ks[i]))]
       \o << "", Repeat("=", 80),
             "Total metadata fields: " \o ToString(Len(ks)),
             Repeat("=", 80) >>

\* C7 as stated: rule, title, timestamp, path, MIME type, rule, blank, the
\* entries in ascending order of raw key, blank, rule, field count, rule, with
\* nothing between the title and the timestamp.
C7_LineSequence_AsStated ==
    \A i \in 1..Len(reports) :
        ~Falsy(reports[i].dict) =>
            reports[i].text =
                Join(<< Repeat("=", 80),
                        "METADATA EXTRACTION REPORT",
                        "Generated: " \o reports[i].now,
                        "File: " \o RenderPath,
                        "MIME Type: " \o RenderMime,
                        Repeat("=", 80),
                        "" >> \o EntriesAndFooter(reports[i].dict), "\n")

\* C7 (amended): the report of a non-empty map is rule, title, rule,
\* timestamp, path, MIME type, rule, blank, the entries in ascending order of
\* raw key, blank, rule, field count, rule: a rule separates the title from
\* the timestamp.
C7_LineSequence ==
    \A i \in 1..Len(reports) :
        ~Falsy(reports[i].dict) =>
            reports[i].text =
                Join(<< Repeat("=", 80),
                        "METADATA EXTRACTION REPORT",
                        Repeat("=", 80),
                        "Generated: " \o reports[i].now,
                        "File: " \o RenderPath,
                        "MIME Type: " \o RenderMime,
                        Repeat("=", 80),
                        "" >> \o EntriesAndFooter(reports[i].dict), "\n")

\* a map was rendered whose two keys sort one way raw and the other way
\* once displayed
C7_Witness ==
    \E i \in 1..Len(reports) :
        /\ reports[i].dict.t = "dict"
        /\ DictKeys(reports[i].dict) = {"aB", "a_b"}

\* C8: no bytes value of the map, at the top level, in a list or in a nested
\* map, appears in the report in its default string form; each appears as
\* '<binary data: N bytes>'.
C8_NoRawBytes ==
    \A i \in 1..Len(reports) :
        LET found == BytesIn(reports[i].dict)
        IN \A b \in 1..Len(found) :
              /\ ~Contains(reports[i].text, PyStr(found[b]))
              /\ Contains(reports[i].text,
                          "<binary data: " \o ToString(Len(found[b].v)) \o " bytes>")

\* the same Python value: the same type and the same content
SameValue(a, b) == a.t = b.t /\ a.v = b.v

\* a key of the map holds this value
Holds(d, k, value) == DictHas(d, k) /\ SameValue(DictGet(d, k), value)

\* the keys of a map that end in "_error"
ErrorKeys(d) == { k \in DictKeys(d) : EndsWith(k, "_error") }

\* the parts of the optional sources of the last call (all but the basic step)
SourceParts == { i \in 2..Len(extraction.parts) : TRUE }

\* C1: no backend extract call ever raises, whatever the path: a path that
\* cannot be stat'ed included, extract returns a map.
C1_NeverRaises == extraction.status # "raised"

\* C3: a map returned by any backend's extract holds file_name,
\* file_size_bytes and file_size_mb with the values the basic-attribute step
\* computed, whatever the optional libraries are or do.
C3_BasicAttributesKept ==
    extraction.status = "returned" =>
        /\ Holds(extraction.metadata, "file_name", Str(basename(extraction.file.path)))
        /\ Holds(extraction.metadata, "file_size_bytes", IntV(extraction.file.size))
        /\ Holds(extraction.metadata, "file_size_mb",
                 Float2(Round2(extraction.file.size, 1024 * 1024)))

\* a call returned after a source failed and another delivered keys that end
\* in the names of the basic attributes
C3_Witness ==
    /\ extraction.status = "returned"
    /\ extraction.backend = "audio"
    /\ \E i \in SourceParts : extraction.parts[i].failed
    /\ \E i \in SourceParts :
         /\ ~extraction.parts[i].failed
         /\ \E k \in DictKeys(extraction.parts[i].dict) : EndsWith(k, "file_size_mb")
    /\ Holds(extraction.metadata, "file_name", Str(basename(extraction.file.path)))

\* C4: within one extract call a source that fails leaves exactly one
\* '<source>_error' key, and the keys of the sources that succeeded, before
\* or after it, are all in the returned map.
C4_SourcesIsolated ==
    extraction.status = "returned" =>
        \A i \in SourceParts :
            LET part == extraction.parts[i]
            IN /\ part.failed =>
                    /\ ErrorKeys(part.dict) = {part.source \o "_error"}
                    /\ DictHas(extraction.metadata, part.source \o "_error")
               /\ ~part.failed =>
                    \A k \in DictKeys(part.dict) : DictHas(extraction.metadata, k)

\* C9: calculate_hashes on a readable file of at most 100*1024*1024 bytes
\* gives md5_hash and sha256_hash, each over the whole byte sequence of the
\* file fed once and in order, and no hash_note; on a larger file it gives
\* hash_note and neither digest.
C9_HashCeiling ==
    /\ hashing.pc = "loop" =>
          hashing.fed = IF hashing.offset = 0 THEN <<>>
                        ELSE <<[from |-> 0, to |-> hashing.offset]>>
    /\ hashing.pc = "done" /\ hashing.file.statable =>
          LET file == hashing.file
              whole == IF file.size = 0 THEN <<>> ELSE <<[from |-> 0, to |-> file.size]>>
          IN /\ (file.readable /\ "read_fails_at" \notin DOMAIN file
                 /\ file.size <= 100 * 1024 * 1024) =>
                    /\ Holds(hashing.metadata, "md5_hash", hexdigest("md5", whole))
                    /\ Holds(hashing.metadata, "sha256_hash", hexdigest("sha256", whole))
                    /\ ~DictHas(hashing.metadata, "hash_note")
             /\ file.size > 100 * 1024 * 1024 =>
                    /\ DictHas(hashing.metadata, "hash_note")
                    /\ ~DictHas(hashing.metadata, "md5_hash")
                    /\ ~DictHas(hashing.metadata, "sha256_hash")

\* the file of exactly the ceiling's size has been hashed to its end
C9_Witness ==
    /\ hashing.pc = "done"
    /\ hashing.file.size = 100 * 1024 * 1024
    /\ DictHas(hashing.metadata, "md5_hash")
    /\ DictHas(hashing.metadata, "sha256_hash")

\* the archive function ran on the file and read the archive
ArchiveRead ==
    /\ extraction.status = "returned"
    /\ extraction.backend = "archive"
    /\ Len(extraction.parts) = 2
    /\ extraction.parts[2].source \in {"zip", "tar", "7z"}
    /\ ~extraction.parts[2].failed

\* C10: for a ZIP, TAR or 7z archive of n members, file_list names the first
\* min(n, 50) members in archive order, num_files is n, and file_list_note is
\* there exactly when n > 50 and then reads '... and N more files', N = n - 50.
C10_MemberListCapped ==
    ArchiveRead =>
        LET n == extraction.archive.n
            listed == SubSeq(MemberNames(n), 1, Min(n, 50))
        IN /\ Holds(extraction.metadata, "num_files", IntV(n))
           /\ Holds(extraction.metadata, "file_list", Str(Join(listed, ", ")))
           /\ DictHas(extraction.metadata, "file_list_note") <=> n > 50
           /\ n > 50 =>
                Holds(extraction.metadata, "file_list_note",
                      Str("... and " \o ToString(n - 50) \o " more files"))

\* an archive of more than fifty members has been listed
C10_Witness ==
    /\ ArchiveRead
    /\ extraction.archive.n = 52
    /\ DictHas(extraction.metadata, "file_list_note")

\* the sub-items a source's result has entries for: the keys of d that start
\* with prefix and end with suffix
EntriesOf(d, prefix, suffix) ==
    { i \in 1..Len(d.v) : StartsWith(d.v[i].k, prefix) /\ EndsWith(d.v[i].k, suffix) }

\* C11: the 50-entry cap bounds EXIF field and video stream enumeration: the
\* result of a source holds the entries of at most 50 EXIF tags, or of at
\* most 50 streams, whatever the file holds.
C11_EnumerationCapped ==
    extraction.status = "returned" =>
        \A i \in 1..Len(extraction.parts) :
            LET part == extraction.parts[i]
            IN /\ part.source = "pil" =>
                     Cardinality(EntriesOf(part.dict, "exif_", "")) <= 50
               /\ part.source = "exifread" =>
                     Cardinality(EntriesOf(part.dict, "exifread_", "")) <= 50
               /\ part.source = "ffprobe" =>
                     Cardinality(EntriesOf(part.dict, "stream_", "_codec")) <= 50

\* the preview keys of the document backend
PreviewKeys == {"first_page_preview", "first_paragraph_preview", "preview"}

\* C12: every preview key the document backend emits holds at most 200
\* characters and no newline character.
C12_PreviewsOneLine ==
    (extraction.status = "returned" /\ extraction.backend = "document") =>
        \A k \in PreviewKeys :
            DictHas(extraction.metadata, k) =>
                LET preview == DictGet(extraction.metadata, k).v
                IN Len(preview) <= 200 /\ ~Contains(preview, "\n")

\* a generic extract call has returned for a file whose header could be read
HeaderRead ==
    /\ extraction.status = "returned"
    /\ extraction.backend = "generic"
    /\ extraction.file.readable

IsPrefix(p, q) == Len(p) <= Len(q) /\ SubSeq(q, 1, Len(p)) = p

\* C13: inspect_header shows at most the first 16 bytes of the file and sets
\* identified_format to the label of the first table signature that is a
\* prefix of them; bytes 50 4B 03 04 give 'ZIP archive'; the key is absent
\* exactly when no signature is a prefix; no signature is a prefix of another,
\* so at most one matches.
C13_FirstSignature ==
    /\ \A i, j \in 1..Len(magic_signatures) :
          i # j => ~IsPrefix(magic_signatures[i].signature, magic_signatures[j].signature)
    /\ HeaderRead =>
          LET head == extraction.file.head
              header == SubSeq(head, 1, Min(16, Len(head)))
              matches == { i \in 1..Len(magic_signatures) :
                             IsPrefix(magic_signatures[i].signature, header) }
              first == CHOOSE i \in matches : \A j \in matches : i <= j
          IN /\ Len(DictGet(extraction.metadata, "file_header_ascii").v) = Len(header)
             /\ Len(DictGet(extraction.metadata, "file_header_hex").v)
                   = (IF Len(header) = 0 THEN 0 ELSE 3 * Len(header) - 1)
             /\ Cardinality(matches) <= 1
             /\ DictHas(extraction.metadata, "identified_format") <=> matches # {}
             /\ matches # {} =>
                   Holds(extraction.metadata, "identified_format",
                         Str(magic_signatures[first].description))
             /\ IsPrefix(<<80, 75, 3, 4>>, head) =>
                   Holds(extraction.metadata, "identified_format", Str("ZIP archive"))

\* a file of more than 16 bytes that starts with the ZIP signature has been
\* inspected
C13_Witness ==
    /\ HeaderRead
    /\ Len(extraction.file.head) > 16
    /\ Holds(extraction.metadata, "identified_format", Str("ZIP archive"))

\* a video extract call has returned
VideoReturned == extraction.status = "returned" /\ extraction.backend = "video"

\* the sources a returned call attempted, in order
SourcesRun == [i \in 1..Len(extraction.parts) |-> extraction.parts[i].source]

SaveReturned == utility.pc = "returned" /\ utility.call = "save_metadata"

\* C14: save_metadata never raises: it returns False on any I/O error (the
\* output directory cannot be created, the file cannot be opened, the write
\* fails), and it returns True only when the whole text was written to the
\* output path.
C14_FalseOnError ==
    SaveReturned =>
        LET io == utility.io
            r == utility.result
        IN /\ r.returned \in BOOLEAN
           /\ (io.makedirs_raises \/ io.open_raises \/ io.write_raises) => ~r.returned
           /\ r.returned => r.content = Str(encode_replace(utility.text_content))

\* a write that failed part-way has been answered with False
C14_Witness ==
    /\ SaveReturned
    /\ utility.io.write_raises
    /\ ~utility.io.open_raises
    /\ utility.io.flushed = 4
    /\ ~utility.result.returned

\* C15: after save_metadata returns, the output file holds either exactly
\* the supplied text (True returned) or its earlier content unchanged (False
\* returned); it is never left truncated or partially written.
C15_AtomicOverwrite ==
    SaveReturned =>
        \/ /\ utility.result.returned
           /\ utility.result.content = Str(utility.text_content)
        \/ /\ ~utility.result.returned
           /\ utility.result.content = utility.io.earlier

\* a generate_output_filename call has returned
NameReturned == utility.pc = "returned" /\ utility.call = "generate_output_filename"

\* C16: generate_output_filename returns the input path without its final
\* extension (if any), followed by '_metadata.txt': the result lies in the
\* input's directory, ends in '.txt' and differs from the input path.
C16_DefaultOutputName ==
    NameReturned =>
        LET input == utility.input_path
            name == basename(input)
            dot == RFind(name, ".")
            stem == IF dot > 1 THEN SubSeq(input, 1, Len(input) - Len(name) + dot - 1)
                    ELSE input
        IN /\ utility.result = stem \o "_metadata.txt"
           /\ dirname(utility.result) = dirname(input)
           /\ EndsWith(utility.result, ".txt")
           /\ utility.result # input

\* the name for a file in a dotted directory, with no extension of its own
C16_Witness ==
    /\ NameReturned
    /\ utility.input_path = "/d.x/readme"
    /\ utility.result = "/d.x/readme_metadata.txt"

\* a detect_type call has returned
DetectReturned == utility.pc = "returned" /\ utility.call = "detect_type"

\* the file could be sniffed: python-magic is there and did not raise
Sniffed == utility.MAGIC_AVAILABLE /\ ~utility.magic.raises

\* what the fallback chain gives for a file
ChainResult ==
    IF Sniffed THEN Str(utility.magic.mime)
    ELSE IF guess_type(utility.file.path).t # "none" THEN guess_type(utility.file.path)
    ELSE Str("application/octet-stream")

\* C18 as stated: detect_type returns the sniffed type when sniffing is
\* available and succeeds, otherwise the extension's type when the extension
\* is known, and the generic 'application/octet-stream' when both fail,
\* including for a path that does not exist.
C18_FallbackChain_AsStated ==
    DetectReturned =>
        IF utility.file.statable THEN utility.result = ChainResult
        ELSE utility.result \in {Str("application/octet-stream"),
                                 guess_type(utility.file.path)}

\* C18: for a path that exists detect_type follows the chain (sniffed type,
\* else the extension's type, else 'application/octet-stream'); for a path
\* that does not exist it returns 'unknown/unknown'.
C18_FallbackChain ==
    DetectReturned =>
        IF utility.file.statable THEN utility.result = ChainResult
        ELSE utility.result = Str("unknown/unknown")

\* detect_type was called for a path that does not exist
C18_Witness ==
    /\ DetectReturned
    /\ ~utility.file.statable
    /\ utility.result = Str("unknown/unknown")

\* the request of call r fails validation
Invalid(r) ==
    \/ app.requests[r].input_path = ""
    \/ app.requests[r].output_path = ""
    \/ ~app.requests[r].exists

\* the message boxes call r has shown
OutcomesOf(r) == { i \in 1..Len(app.outcomes) : app.outcomes[i].run = r }

\* the pipeline functions call r has invoked, in order
StagesOf(r) ==
    SelectSeq(app.stages, LAMBDA s : s.run = r)

\* C17: a request with an empty input path, an empty output path or an input
\* path that does not exist is answered with an error, and none of
\* detect_type, the backend extract, normalize_metadata or save_metadata is
\* invoked for it.
C17_ValidationFirst ==
    \A r \in 1..Len(app.requests) :
        Invalid(r) =>
            /\ StagesOf(r) = <<>>
            /\ \A i \in 1..Len(app.stack) : app.stack[i].run # r
            /\ Cardinality(OutcomesOf(r)) = 1
            /\ \A i \in OutcomesOf(r) : app.outcomes[i].box = "error"

\* a request with a file selected and the output field emptied was refused
C17_Witness ==
    \E r \in 1..Len(app.requests) :
        /\ app.requests[r].input_path # ""
        /\ app.requests[r].output_path = ""
        /\ app.requests[r].exists
        /\ \E i \in OutcomesOf(r) : app.outcomes[i].message = "Please specify an output location"

\* C20: at most one extract_metadata run is in progress at any time, no
\* second run starts before the first has finished, and a run's stages occur
\* in the order classify, extract, render, write.
C20_OneRunAtATime ==
    /\ Len(app.stack) <= 1
    /\ \A i, j, k \in 1..Len(app.stages) :
          (i < j /\ j < k /\ app.stages[i].run = app.stages[k].run)
             => app.stages[j].run = app.stages[i].run
    /\ \A r \in 1..Len(app.requests) :
          \E n \in 0..4 :
              [i \in 1..Len(StagesOf(r)) |-> StagesOf(r)[i].stage]
                 = SubSeq(<<"classify", "extract", "render", "write">>, 1, n)

\* call r is under way
Running(r) == \E i \in 1..Len(app.stack) : app.stack[i].run = r

\* call r invoked the pipeline function and it returned (save_metadata: True)
Returned(r, stage) ==
    \E i \in 1..Len(app.stages) :
        app.stages[i] = [run |-> r, stage |-> stage, ok |-> TRUE]

\* the boxes of the kind that call r has shown
Boxes(r, box) == { i \in OutcomesOf(r) : app.outcomes[i].box = box }

\* C21: a request that passes validation shows nothing while it runs and
\* exactly one box once it has ended; the Success box only after
\* normalize_metadata returned and save_metadata returned True, with the
\* preview showing that run's report; otherwise one Error box and the
\* preview left as it was; the call that ends leaves the Extract button
\* enabled; and every call under way ends.
C21_OneOutcome ==
    /\ [](\A r \in 1..Len(app.requests) :
            ~Invalid(r) =>
               /\ Cardinality(OutcomesOf(r)) = (IF Running(r) THEN 0 ELSE 1)
               /\ Boxes(r, "success") # {}
                     => Returned(r, "render") /\ Returned(r, "write")
               /\ Boxes(r, "error") # {} => ~Returned(r, "write"))
    /\ [][\A r \in 1..Len(app.requests) :
             (Running(r) /\ ~Running(r)') =>
                 /\ app'.extract_btn = "normal"
                 /\ app'.preview = (IF Returned(r, "write")' THEN r ELSE app.preview)]_vars
    /\ \A r \in 1..MaxRuns : Running(r) ~> ~Running(r)

\* one call has ended with the Success box and its report in the preview,
\* another with the Error box after save_metadata returned False
C21_Witness ==
    \E r, q \in 1..Len(app.requests) :
        /\ Boxes(r, "success") # {} /\ app.preview = r /\ ~Running(r)
        /\ Boxes(q, "error") # {} /\ ~Running(q)
        /\ \E i \in 1..Len(app.stages) :
              app.stages[i] = [run |-> q, stage |-> "write", ok |-> FALSE]

\* C22: whenever extract_with_ffprobe obtains no format or stream data (no
\* executable found, the launch fails, the timeout expires, ffprobe exits
\* with a non-zero status, or its output is no JSON) the map it returns holds
\* ffprobe_note or ffprobe_error.
C22_FailedProbeDiagnosed ==
    VideoReturned =>
        LET sc == extraction.ffprobe
            returned == extraction.parts[2].dict
            unsuccessful ==
                \/ ~sc.located
                \/ sc.run = "not_found"
                \/ sc.seconds > 30
                \/ sc.returncode # 0
                \/ sc.data.t = "none"
        IN unsuccessful =>
              (DictHas(returned, "ffprobe_note") \/ DictHas(returned, "ffprobe_error"))

\* C23: in a returned extract call no key is written by two sources (the
\* basic-attribute step and each attempt of the backend), and the merged map
\* holds every source's keys with the values that source wrote.
C23_SourcesDisjoint ==
    extraction.status = "returned" =>
        /\ \A i, j \in 1..Len(extraction.parts) :
              i < j => DictKeys(extraction.parts[i].dict)
                          \cap DictKeys(extraction.parts[j].dict) = {}
        /\ \A i \in 1..Len(extraction.parts) :
              \A k \in DictKeys(extraction.parts[i].dict) :
                  /\ DictHas(extraction.metadata, k)
                  /\ DictGet(extraction.metadata, k) = DictGet(extraction.parts[i].dict, k)

\* an audio call returned with the bit rate and the channels written by both
\* mutagen and tinytag, each under its own key
C23_Witness ==
    /\ extraction.status = "returned"
    /\ extraction.backend = "audio"
    /\ Len(extraction.parts) = 3
    /\ {"bitrate", "channels"} \subseteq DictKeys(extraction.parts[2].dict)
    /\ {"tinytag_bitrate", "tinytag_channels"} \subseteq DictKeys(extraction.parts[3].dict)
    /\ DictGet(extraction.metadata, "bitrate") # DictGet(extraction.metadata, "tinytag_bitrate")

\* C24: in every state of the window, whatever was browsed, chosen,
\* extracted or cleared, also during an extraction, the Extract button is
\* enabled only while an input file is selected.
C24_EnabledOnlyWithFile == app.extract_btn = "normal" => app.selected_file # ""

====
